---- MODULE Spec2Model ----
(***************************************************************************)
(* State-machine model of backend/server.py: the account store, the       *)
(* registration workflow, the role- and society-scoped visibility rules    *)
(* and the performance-test store.                                         *)
(*                                                                         *)
(* Accounts and tests are kept in insertion order (the store's natural     *)
(* order); the id of an account or of a test is its position, which stands *)
(* for the fresh uuid4 the handlers draw.  A bearer token carries the      *)
(* account id, e-mail and role of the account it was issued to; no handler *)
(* changes an account's e-mail or role, so a token is identified with the  *)
(* account id.                                                             *)
(*                                                                         *)
(* A handler is a coroutine that can be suspended at each await on the     *)
(* store.  Every handler with more than one await is modelled one action   *)
(* per stretch between two awaits, and the calls in flight are             *)
(* interleaved; login has one await, nothing after it changes state, and   *)
(* it is one action.                                                       *)
(*                                                                         *)
(* The specifications share the state; those of the account handlers are:  *)
(*   SpecConc         registration, approval and rejection from an empty   *)
(*                    or a small store;                                    *)
(*   SpecApproval     approval and rejection over a store of accounts of   *)
(*                    every role;                                          *)
(*   SpecListing      account listing while accounts are approved and      *)
(*                    rejected;                                            *)
(*   SpecPending      listing of the pending accounts while accounts are   *)
(*                    approved;                                            *)
(*   SpecLogin        login while accounts are registered, approved and    *)
(*                    rejected;                                            *)
(*   SpecDesignation  designated coach and statistics.                     *)
(* The others (tests, administration, society changes, password recovery   *)
(* and reset, metrics, categories, statistics, token sweep) are defined    *)
(* next to the handlers they exercise.                                     *)
(***************************************************************************)
EXTENDS Integers, Sequences, FiniteSets, TLC

VARIABLES
    users,      \* db.users: sequence of account documents
    tests,      \* db.tests: sequence of test documents
    tokens,     \* ids of the accounts a bearer token has been issued to
    calls,      \* handlers suspended at an await
    last,       \* the most recent response
    societies,  \* db.societies: sequence of society documents
    requests,   \* db.society_change_requests: sequence of request documents
    resets,     \* db.password_resets: sequence of reset-token documents
    attempts,   \* password_reset_attempts: e-mail -> timestamps of attempts
    now,        \* the wall clock, in seconds
    year,       \* the calendar year of the wall clock
    issued      \* the number of reset tokens drawn so far

vars == <<users, tests, tokens, calls, last,
          societies, requests, resets, attempts, now, year, issued>>

\* What the account, test and registration handlers never touch.
other_stores == <<societies, requests, resets, attempts, now, year, issued>>

\* ------------------------------------------------------------------ bounds
MaxUsers == 3      \* accounts the store may hold
MaxTests == 2      \* tests the store may hold
MaxCalls == 2      \* handlers in flight at once
MaxSocieties == 2  \* societies created by create_society
MaxTicks == 3      \* half-hours the clock advances
MaxYears == 1      \* new years the clock passes
MaxRequests == 2   \* society-change requests the store may hold
MaxResets == 4     \* reset documents the store may hold
MaxResetDocs == 1  \* reset documents where tokens are redeemed
MaxMetricTests == 1 \* tests stored where the metrics' inputs vary

\* --------------------------------------------------------------- constants
None == "None"
RateWindowSeconds == 3600      \* line 357
RateMaxAttempts == 3           \* line 360
ResetValiditySeconds == 3600   \* line 377: timedelta(hours=1)

SUPER_ADMIN == "super_admin"
COACH == "coach"
ATHLETE == "athlete"
UserRole == {SUPER_ADMIN, COACH, ATHLETE}

PENDING == "pending"
APPROVED == "approved"
REJECTED == "rejected"
UserStatus == {PENDING, APPROVED, REJECTED}

OperatorEmail == "acquistapacem09@gmail.com"

\* ------------------------------------------------------------------ inputs
Emails == {OperatorEmail, "new@x.it"}
StatusFilters == {None, "", PENDING}
LoginEmails == Emails \cup {"ath@x.it"}
\* The password of every registered account, another, and one of more than
\* 72 bytes.
LoginPasswords == {"pw0", "bad", "long72a"}
TestDates == {<<1>>}              \* the date string "1"
DesignationCallers == {1, 2}      \* a super_admin, a coach of TestSeedUsers
ConcRoleInputs == {ATHLETE, "guest"}
Ids == 1..(MaxUsers + 1)          \* MaxUsers + 1 is an id no account has
TestIds == 1..5                   \* the accounts of TestSeedUsers and an id none has
Procs == 1..MaxCalls

\* ----------------------------------------------------------------- helpers
ToSet(s) == {s[i] : i \in DOMAIN s}

Min(S) == CHOOSE x \in S : \A y \in S : x <= y

\* Ascending sequence of the elements of a finite set of integers.
RECURSIVE SortedSeq(_)
SortedSeq(S) == IF S = {} THEN <<>> ELSE <<Min(S)>> \o SortedSeq(S \ {Min(S)})

\* Two passwords of more than 72 bytes whose first 72 bytes are the same;
\* every other password of the model is shorter.
LongPasswords == {"long72a", "long72b"}

\* The bytes of a password that bcrypt reads: the first 72.
First72(password) ==
    IF password \in LongPasswords THEN "long72" ELSE password

\* bcrypt.hashpw and bcrypt.checkpw on a password of more than 72 bytes:
\* bcrypt before 5.0 truncates it (FALSE), bcrypt from 5.0 on raises
\* ValueError (TRUE).  The repository pins no version, so either happens.
bcrypt_rejects(password) ==
    IF password \in LongPasswords THEN BOOLEAN ELSE {FALSE}

\* Lines 199-200: bcrypt digest of a password that bcrypt does not reject
\* (the random salt is left out: it does not enter verify_password's
\* verdict).
hash_password(password) == <<"bcrypt", First72(password)>>

\* find_one({"id": id}): the document, or NoDoc for Python's None.
NoDoc == [email |-> None, role |-> None, status |-> None,
          society_ids |-> <<>>, designated_coach_id |-> 0,
        birth_year |-> <<>>, category |-> None,
        password |-> hash_password("pw0"), weight |-> <<>>]

Exists(us, id) == id \in DOMAIN us

FindById(us, id) == IF Exists(us, id) THEN us[id] ELSE NoDoc

\* find_one({"email": e}): position of the first match, 0 when there is none.
FindByEmail(us, e) ==
    IF \E i \in DOMAIN us : us[i].email = e
    THEN Min({i \in DOMAIN us : us[i].email = e})
    ELSE 0

\* Faulty variant of SocietyIn: any two non-empty lists match.
SocietyIn_any_society(doc, values) ==
    /\ doc.society_ids # <<>>
    /\ values # <<>>

\* {"society_ids": {"$in": values}}: the array field holds one of the values.
SocietyIn(doc, values) == ToSet(doc.society_ids) \cap ToSet(values) # {}

Response(op, caller, target, other, arg, code, out) ==
    [op |-> op, caller |-> caller, target |-> target, other |-> other,
     arg |-> arg, code |-> code, out |-> out, stats |-> <<>>]

\* Requests are kept in insertion order; a request's id is its position
\* (standing for the uuid4 of line 708).
NoRequest == [athlete_id |-> 0, old_society_id |-> None,
              new_society_id |-> None, new_society_name |-> None,
              status |-> None]

\* A test document before create_test has built one.
NoTest == [athlete_id |-> 0, society_id |-> None, date |-> <<>>,
           distance |-> [n |-> 0, d |-> 1],
           time_seconds |-> [n |-> 0, d |-> 1],
           split_500 |-> [n |-> 0, d |-> 1], watts |-> [n |-> 0, d |-> 1],
           watts_per_kg |-> <<>>, weight |-> <<>>]

\* A society document before create_society has built one.
NoSociety == [id |-> None, name |-> None, created_at |-> 0]

\* clock: the instant the handler read the wall clock at.
Idle == [op |-> "idle", pc |-> "idle", caller |-> 0, target |-> 0,
         society_doc |-> NoSociety, clock |-> 0,
         email |-> None, role |-> None, society |-> None,
         status |-> None, doc |-> NoDoc, request |-> NoRequest,
         token |-> 0, password |-> None, coach |-> 0, filter |-> None,
         test |-> NoTest, ids |-> {}, list |-> <<>>, count |-> 0,
         category |-> None, expiry |-> 0]

\* ------------------------------------------------------------ initial store
\* The store outlives the process: it is either empty (first start) or holds
\* accounts of earlier registrations.  The first account of a store is the
\* operator's (lines 254-256: no other registration is approved without an
\* approver) and every account has one society at most (lines 260 and 764).
SeedUsers ==
    << [email |-> OperatorEmail, role |-> COACH, status |-> APPROVED,
        society_ids |-> <<"A">>, designated_coach_id |-> 0,
        birth_year |-> <<>>, category |-> None,
        password |-> hash_password("pw0"), weight |-> <<>>],
       [email |-> "ath@x.it", role |-> ATHLETE, status |-> PENDING,
        society_ids |-> <<"A">>, designated_coach_id |-> 0,
        birth_year |-> <<>>, category |-> None,
        password |-> hash_password("pw0"), weight |-> <<>>] >>

TestSeedUsers ==
    << [email |-> OperatorEmail, role |-> SUPER_ADMIN, status |-> APPROVED,
        society_ids |-> <<>>, designated_coach_id |-> 0,
        birth_year |-> <<>>, category |-> None,
        password |-> hash_password("pw0"), weight |-> <<>>],
       [email |-> "coach@x.it", role |-> COACH, status |-> APPROVED,
        society_ids |-> <<"B">>, designated_coach_id |-> 0,
        birth_year |-> <<>>, category |-> None,
        password |-> hash_password("pw0"), weight |-> <<>>],
       [email |-> "coach2@x.it", role |-> COACH, status |-> APPROVED,
        society_ids |-> <<>>, designated_coach_id |-> 0,
        birth_year |-> <<>>, category |-> None,
        password |-> hash_password("pw0"), weight |-> <<>>],
       [email |-> "ath@x.it", role |-> ATHLETE, status |-> APPROVED,
        society_ids |-> <<"B">>, designated_coach_id |-> 0,
        birth_year |-> <<>>, category |-> None,
        password |-> hash_password("pw0"), weight |-> <<>>] >>

\* Line 37: the attempt table of a fresh process has no key.
NoAttempts == [e \in {} |-> <<>>]

\* The collections no earlier run has written to, and the clock at start.
\* (register stores any society_id without looking it up, so accounts may
\* name societies while db.societies is empty.)
InitOther ==
    /\ societies = <<>>
    /\ requests = <<>>
    /\ resets = <<>>
    /\ attempts = NoAttempts
    /\ now = 0
    /\ year = 2026
    /\ issued = 0

Init ==
    /\ users \in {<<>>, SeedUsers}
    /\ tests = <<>>
    /\ tokens = {i \in DOMAIN users : users[i].status = APPROVED}
    /\ calls = [p \in Procs |-> Idle]
    /\ last = Response("none", 0, 0, 0, None, 0, <<>>)
    /\ InitOther

\* ------------------------------------------------- handlers run interleaved
\* Each handler is a coroutine that may be suspended at every await on the
\* store; a step below runs from one await to the next.  calls[p] holds the
\* local variables of the handler in flight in slot p.
Reply(p, resp) ==
    /\ calls' = [calls EXCEPT ![p] = Idle]
    /\ last' = resp

InFlight(op) == Cardinality({p \in Procs : calls[p].op = op})

\* A new call takes the first free slot (which slot holds a call makes no
\* difference to any handler).
Free(p) == calls[p] = Idle /\ \A q \in 1..(p - 1) : calls[q] # Idle

\* ---------------------------------------------------------------- register
\* Lines 251-256: pending unless the store is empty and the e-mail is the
\* operator's.
user_status(user_count, email) ==
    IF user_count = 0 /\ email = OperatorEmail THEN APPROVED ELSE PENDING

\* Python's truth value of an optional string: None and "" are false.
TruthyStr(s) == s # None /\ s # ""

\* Lines 260-275: the inserted document; line 260 keeps the society when
\* society_id is true.
user_doc(email, role, society_id, status) ==
    [email |-> email, role |-> role, status |-> status,
     society_ids |-> IF TruthyStr(society_id) THEN <<society_id>> ELSE <<>>,
     designated_coach_id |-> 0,
        birth_year |-> <<>>, category |-> None,
        password |-> hash_password("pw0"), weight |-> <<>>]

\* register, lines 232-238: find_one by e-mail, then the role validation.
register_find(p, email, role, society_id) ==
    /\ Free(p)
    /\ Len(users) + InFlight("register") < MaxUsers
    /\ IF FindByEmail(users, email) # 0 \/ role \notin UserRole
       THEN Reply(p, Response("register", 0, 0, 0, email, 400, <<>>))
       ELSE /\ calls' = [calls EXCEPT ![p] =
                           [Idle EXCEPT !.op = "register", !.pc = "count",
                                        !.email = email, !.role = role,
                                        !.society = society_id]]
            /\ UNCHANGED last
    /\ UNCHANGED <<users, tests, tokens>>
    /\ UNCHANGED other_stores

\* register, lines 254-256: count_documents and the initial status.
register_count(p) ==
    /\ calls[p].op = "register" /\ calls[p].pc = "count"
    /\ calls' = [calls EXCEPT ![p].pc = "insert",
                              ![p].status = user_status(Len(users), calls[p].email)]
    /\ UNCHANGED <<users, tests, tokens, last>>
    /\ UNCHANGED other_stores

\* register, lines 258-303: insert_one and the response.  The body returned
\* for a pending account names the module fastapi.status (line 299): the
\* reply is 200 when the framework serialises it and 500 when it cannot, the
\* account being inserted either way.
register_insert(p) ==
    /\ calls[p].op = "register" /\ calls[p].pc = "insert"
    /\ LET c == calls[p]
           id == Len(users) + 1
       IN /\ users' = Append(users, user_doc(c.email, c.role, c.society,
                                             c.status))
          /\ tokens' = IF c.status = APPROVED THEN tokens \cup {id} ELSE tokens
          /\ \E code \in IF c.status = APPROVED THEN {200} ELSE {200, 500} :
                Reply(p, Response("register", 0, id, 0, c.email, code, <<>>))
    /\ UNCHANGED tests
    /\ UNCHANGED other_stores

\* ------------------------------------------------------------------- login
\* Lines 202-203: bcrypt.checkpw of a password that bcrypt does not reject
\* against the stored digest: the digests of the first 72 bytes agree.
verify_password(password, hashed) == hash_password(password) = hashed

\* Lines 307-318: the checks of login in the order of the code, as the status
\* code of the reply; rejected: bcrypt.checkpw raises ValueError at line 313,
\* which no handler catches.
login_status_code(us, email, password, rejected) ==
    LET id == FindByEmail(us, email) IN
    IF id = 0 THEN 401
    ELSE IF rejected THEN 500
    ELSE IF ~verify_password(password, us[id].password) THEN 401
    ELSE IF us[id].status # APPROVED THEN 403
    ELSE 200

\* Lines 305-337; the reply holds a token exactly when its code is 200.
login(email, password) ==
    \E rejected \in bcrypt_rejects(password) :
    LET id == FindByEmail(users, email)
        code == login_status_code(users, email, password, rejected)
    IN
    /\ tokens' = IF code = 200 THEN tokens \cup {id} ELSE tokens
    /\ last' = Response("login", 0, id, password, email, code, <<>>)
    /\ UNCHANGED <<users, tests, calls>>
    /\ UNCHANGED other_stores

\* ------------------------------------------------- approve / reject account
\* Faulty variant of approve_permitted: a coach may act on any role.
approve_permitted_any_role(role, current_user_doc, user_to_approve) ==
    IF role = SUPER_ADMIN THEN TRUE
    ELSE IF role = COACH
    THEN ToSet(current_user_doc.society_ids)
             \cap ToSet(user_to_approve.society_ids) # {}
    ELSE FALSE

\* Lines 559-573: the permission check of approve_user, on the caller's token
\* role, the caller's document and the document read at line 549.
approve_permitted(role, current_user_doc, user_to_approve) ==
    IF role = SUPER_ADMIN THEN TRUE
    ELSE IF role = COACH
    THEN /\ user_to_approve.role \in {ATHLETE, COACH}
         /\ ToSet(current_user_doc.society_ids)
                \cap ToSet(user_to_approve.society_ids) # {}
    ELSE FALSE

\* Lines 596-606: the same check, as reject_user repeats it.
reject_permitted(role, current_user_doc, user_to_reject) ==
    IF role = SUPER_ADMIN THEN TRUE
    ELSE IF role = COACH
    THEN /\ user_to_reject.role \in {ATHLETE, COACH}
         /\ ToSet(current_user_doc.society_ids)
                \cap ToSet(user_to_reject.society_ids) # {}
    ELSE FALSE

\* Lines 553-554 and 590-591: the "is it still pending?" guard, on the
\* document the handler has read.
approve_conflict(user_to_approve) == user_to_approve.status # PENDING

reject_conflict(user_to_reject) == user_to_reject.status # PENDING

\* update_one({"id": id}, {"$set": {"status": st}}): no condition on the
\* stored status.
SetStatus(us, id, st) ==
    [i \in DOMAIN us |-> IF i = id THEN [us[i] EXCEPT !.status = st] ELSE us[i]]

\* approve_user, lines 549-554: find_one of the target and the pending check.
approve_find(p, caller, user_id) ==
    /\ Free(p)
    /\ caller \in tokens
    /\ IF ~Exists(users, user_id)
       THEN Reply(p, Response("approve", caller, user_id, 0, None, 404, <<>>))
       ELSE IF approve_conflict(users[user_id])
       THEN Reply(p, Response("approve", caller, user_id, 0, None, 400, <<>>))
       ELSE /\ calls' = [calls EXCEPT ![p] =
                           [Idle EXCEPT !.op = "approve", !.pc = "check",
                                        !.caller = caller, !.target = user_id,
                                        !.doc = users[user_id]]]
            /\ UNCHANGED last
    /\ UNCHANGED <<users, tests, tokens>>
    /\ UNCHANGED other_stores

\* approve_user, lines 557-573: find_one of the caller and the permission check.
approve_check(p) ==
    /\ calls[p].op = "approve" /\ calls[p].pc = "check"
    /\ LET c == calls[p] IN
       IF ~approve_permitted(users[c.caller].role, FindById(users, c.caller), c.doc)
       THEN Reply(p, Response("approve", c.caller, c.target, 0, None, 403, <<>>))
       ELSE /\ calls' = [calls EXCEPT ![p].pc = "update"]
            /\ UNCHANGED last
    /\ UNCHANGED <<users, tests, tokens>>
    /\ UNCHANGED other_stores

\* approve_user, lines 576-581: update_one and the response.
approve_update(p) ==
    /\ calls[p].op = "approve" /\ calls[p].pc = "update"
    /\ users' = SetStatus(users, calls[p].target, APPROVED)
    /\ Reply(p, Response("approve", calls[p].caller, calls[p].target, 0, None,
                         200, <<>>))
    /\ UNCHANGED <<tests, tokens>>
    /\ UNCHANGED other_stores

\* reject_user, lines 586-591.
reject_find(p, caller, user_id) ==
    /\ Free(p)
    /\ caller \in tokens
    /\ IF ~Exists(users, user_id)
       THEN Reply(p, Response("reject", caller, user_id, 0, None, 404, <<>>))
       ELSE IF reject_conflict(users[user_id])
       THEN Reply(p, Response("reject", caller, user_id, 0, None, 400, <<>>))
       ELSE /\ calls' = [calls EXCEPT ![p] =
                           [Idle EXCEPT !.op = "reject", !.pc = "check",
                                        !.caller = caller, !.target = user_id,
                                        !.doc = users[user_id]]]
            /\ UNCHANGED last
    /\ UNCHANGED <<users, tests, tokens>>
    /\ UNCHANGED other_stores

\* reject_user, lines 594-606.
reject_check(p) ==
    /\ calls[p].op = "reject" /\ calls[p].pc = "check"
    /\ LET c == calls[p] IN
       IF ~reject_permitted(users[c.caller].role, FindById(users, c.caller), c.doc)
       THEN Reply(p, Response("reject", c.caller, c.target, 0, None, 403, <<>>))
       ELSE /\ calls' = [calls EXCEPT ![p].pc = "update"]
            /\ UNCHANGED last
    /\ UNCHANGED <<users, tests, tokens>>
    /\ UNCHANGED other_stores

\* reject_user, lines 608-613.
reject_update(p) ==
    /\ calls[p].op = "reject" /\ calls[p].pc = "update"
    /\ users' = SetStatus(users, calls[p].target, REJECTED)
    /\ Reply(p, Response("reject", calls[p].caller, calls[p].target, 0, None,
                         200, <<>>))
    /\ UNCHANGED <<tests, tokens>>
    /\ UNCHANGED other_stores

\* --------------------------------------------------------------- get_users
\* Lines 503-522: the ids of the documents the handler returns, in store
\* order, from the token's role, the caller's document read at line 511
\* (coach only) and the store us that find reads at line 521.
get_users_result(us, role, user, user_status_filter) ==
    LET StatusOk(i) == ~TruthyStr(user_status_filter) \/ us[i].status = user_status_filter
    IN IF role = SUPER_ADMIN
       THEN SortedSeq({i \in DOMAIN us : StatusOk(i)})
       ELSE IF role = COACH
       THEN IF user = NoDoc \/ user.society_ids = <<>>
            THEN <<>>
            ELSE SortedSeq({i \in DOMAIN us :
                               /\ SocietyIn(us[i], user.society_ids)
                               /\ StatusOk(i)})
       ELSE <<>>

\* get_users up to its second await.  A super_admin's call has one await, the
\* find of line 521, and an athlete's none: both are answered here.  A
\* coach's call reads its own document (line 511) and is answered here when
\* it has no society.
get_users_start(p, caller, user_status_filter) ==
    /\ Free(p)
    /\ caller \in tokens
    /\ LET role == users[caller].role
           user == FindById(users, caller)
       IN IF role = COACH /\ user # NoDoc /\ user.society_ids # <<>>
          THEN /\ calls' = [calls EXCEPT ![p] =
                              [Idle EXCEPT !.op = "get_users", !.pc = "find",
                                           !.caller = caller, !.doc = user,
                                           !.filter = user_status_filter]]
               /\ UNCHANGED last
          ELSE Reply(p, Response("get_users", caller, 0, 0, user_status_filter, 200,
                                 get_users_result(users, role, user, user_status_filter)))
    /\ UNCHANGED <<users, tests, tokens>>
    /\ UNCHANGED other_stores

\* get_users, lines 521-522: a coach's find and the response.
get_users_find(p) ==
    /\ calls[p].op = "get_users" /\ calls[p].pc = "find"
    /\ LET c == calls[p] IN
       Reply(p, Response("get_users", c.caller, 0, 0, c.filter, 200,
                         get_users_result(users, COACH, c.doc, c.filter)))
    /\ UNCHANGED <<users, tests, tokens>>
    /\ UNCHANGED other_stores

\* ------------------------------------------------------- get_pending_users
\* Faulty variant of get_pending_users_result: a coach's query without the
\* role condition of line 538.
get_pending_users_any_role(us, role, user) ==
    IF role = SUPER_ADMIN
    THEN SortedSeq({i \in DOMAIN us : us[i].status = PENDING})
    ELSE IF role = COACH
    THEN IF user = NoDoc \/ user.society_ids = <<>>
         THEN <<>>
         ELSE SortedSeq({i \in DOMAIN us :
                            /\ us[i].status = PENDING
                            /\ SocietyIn(us[i], user.society_ids)})
    ELSE <<>>

\* Lines 527-543: the ids of the documents the handler returns, in store
\* order, from the token's role, the caller's document read at line 534
\* (coach only) and the store us that find reads at line 542.
get_pending_users_result(us, role, user) ==
    IF role = SUPER_ADMIN
    THEN SortedSeq({i \in DOMAIN us : us[i].status = PENDING})
    ELSE IF role = COACH
    THEN IF user = NoDoc \/ user.society_ids = <<>>
         THEN <<>>
         ELSE SortedSeq({i \in DOMAIN us :
                            /\ us[i].status = PENDING
                            /\ SocietyIn(us[i], user.society_ids)
                            /\ us[i].role \in {ATHLETE, COACH}})
    ELSE <<>>

\* get_pending_users up to its second await: a super_admin's call (one await,
\* the find of line 542), an athlete's (none) and that of a coach without
\* society are answered here; a coach's call has read its own document
\* (line 534).
get_pending_users_start(p, caller) ==
    /\ Free(p)
    /\ caller \in tokens
    /\ LET role == users[caller].role
           user == FindById(users, caller)
       IN IF role = COACH /\ user # NoDoc /\ user.society_ids # <<>>
          THEN /\ calls' = [calls EXCEPT ![p] =
                              [Idle EXCEPT !.op = "get_pending_users",
                                           !.pc = "find",
                                           !.caller = caller, !.doc = user]]
               /\ UNCHANGED last
          ELSE Reply(p, Response("get_pending_users", caller, 0, 0, None, 200,
                                 get_pending_users_result(users, role, user)))
    /\ UNCHANGED <<users, tests, tokens>>
    /\ UNCHANGED other_stores

\* get_pending_users, lines 542-543: a coach's find and the response.
get_pending_users_find(p) ==
    /\ calls[p].op = "get_pending_users" /\ calls[p].pc = "find"
    /\ LET c == calls[p] IN
       Reply(p, Response("get_pending_users", c.caller, 0, 0, None, 200,
                         get_pending_users_result(users, COACH, c.doc)))
    /\ UNCHANGED <<users, tests, tokens>>
    /\ UNCHANGED other_stores

\* ---------------------------------------------------- set_designated_coach
\* Faulty variant of admin_forbidden: coaches pass the role check.
admin_forbidden_athletes_only(role) == role = ATHLETE

\* Lines 482, 618, 645, 666: the role check of the administrative handlers.
admin_forbidden(role) == role # SUPER_ADMIN

\* Line 674: only a coach or a super_admin can be given a designated coach.
designated_target_invalid(user) == user.role \notin {COACH, SUPER_ADMIN}

\* An id parameter is an Optional[str]: 0 stands for None and EmptyId for the
\* empty string, which is the id of no account.
EmptyId == -1

\* Line 678, "if coach_id:": None and the empty string are both false.
TruthyId(id) == id # 0 /\ id # EmptyId

\* Lines 678-681: a coach_id that is given must name an account whose role is
\* coach.
designated_coach_invalid(us, coach_id) ==
    TruthyId(coach_id) /\ (~Exists(us, coach_id) \/ us[coach_id].role # COACH)

\* set_designated_coach up to its second await: the role check (lines
\* 666-667, before any await), then find_one of the target (line 670) and the
\* checks on it.  With a coach_id that is None or empty the next await is the
\* update.
set_designated_coach_find_user(p, caller, user_id, coach_id) ==
    /\ Free(p)
    /\ caller \in tokens
    /\ IF admin_forbidden(users[caller].role)
       THEN Reply(p, Response("set_designated_coach", caller, user_id,
                              coach_id, None, 403, <<>>))
       ELSE IF ~Exists(users, user_id)
       THEN Reply(p, Response("set_designated_coach", caller, user_id,
                              coach_id, None, 404, <<>>))
       ELSE IF designated_target_invalid(users[user_id])
       THEN Reply(p, Response("set_designated_coach", caller, user_id,
                              coach_id, None, 400, <<>>))
       ELSE /\ calls' = [calls EXCEPT ![p] =
                           [Idle EXCEPT !.op = "set_designated_coach",
                                        !.pc = IF TruthyId(coach_id) THEN "coach"
                                                               ELSE "update",
                                        !.caller = caller, !.target = user_id,
                                        !.coach = coach_id]]
            /\ UNCHANGED last
    /\ UNCHANGED <<users, tests, tokens>>
    /\ UNCHANGED other_stores

\* set_designated_coach, lines 678-681: find_one of the coach and its check.
set_designated_coach_find_coach(p) ==
    /\ calls[p].op = "set_designated_coach" /\ calls[p].pc = "coach"
    /\ LET c == calls[p] IN
       IF designated_coach_invalid(users, c.coach)
       THEN Reply(p, Response("set_designated_coach", c.caller, c.target,
                              c.coach, None, 404, <<>>))
       ELSE /\ calls' = [calls EXCEPT ![p].pc = "update"]
            /\ UNCHANGED last
    /\ UNCHANGED <<users, tests, tokens>>
    /\ UNCHANGED other_stores

\* set_designated_coach, lines 684-689: update_one and the response.
set_designated_coach_update(p) ==
    /\ calls[p].op = "set_designated_coach" /\ calls[p].pc = "update"
    /\ LET c == calls[p] IN
       /\ users' = [users EXCEPT ![c.target].designated_coach_id = c.coach]
       /\ Reply(p, Response("set_designated_coach", c.caller, c.target,
                            c.coach, None, 200, <<>>))
    /\ UNCHANGED <<tests, tokens>>
    /\ UNCHANGED other_stores

\* ----------------------------------------------------------------- numbers
\* A float is kept as the fraction it stands for, [n |-> numerator,
\* d |-> denominator] in lowest terms with d > 0; an Optional[float] is <<>>
\* for None and <<x>> for a number.
Abs(i) == IF i < 0 THEN 0 - i ELSE i

RECURSIVE GCD(_, _)
GCD(a, b) == IF b = 0 THEN a ELSE GCD(b, a % b)

Rat(n, d) ==
    LET g == GCD(Abs(n), Abs(d))
        sgn == IF d < 0 THEN 0 - 1 ELSE 1
    IN  [n |-> sgn * (n \div g), d |-> sgn * (d \div g)]

Zero == Rat(0, 1)

\* x * y, cancelling across before multiplying.
RatMul(x, y) ==
    LET a == Rat(x.n, y.d)
        b == Rat(y.n, x.d)
    IN  Rat(a.n * b.n, a.d * b.d)

\* x / y for y # 0.
RatDiv(x, y) == RatMul(x, Rat(y.d, y.n))

RatCube(x) == [n |-> x.n * x.n * x.n, d |-> x.d * x.d * x.d]

\* round(x, 2) of the double computed for x: the nearest multiple of 1/100.
\* round() rounds the double, which is not x itself: when x lies half-way
\* between two multiples the double lies on either side of it (or on it, when
\* x is a binary fraction), so round() gives the multiple below (tie_up FALSE)
\* or the one above (tie_up TRUE).
Round2(x, tie_up) ==
    LET g == GCD(100, x.d)
        num == x.n * (100 \div g)
        den == x.d \div g
        q == num \div den
        r == num % den
        k == IF 2 * r < den THEN q
             ELSE IF 2 * r > den THEN q + 1
             ELSE IF tie_up THEN q + 1 ELSE q
    IN  Rat(k, 100)

\* int(x): truncation towards zero.
IntPart(x) == IF x.n >= 0 THEN x.n \div x.d ELSE 0 - ((0 - x.n) \div x.d)

\* Lines 205-209.
calculate_split_500(distance, time_seconds) ==
    IF distance.n <= 0 THEN Zero
    ELSE RatMul(RatDiv(time_seconds, distance), Rat(500, 1))

\* Faulty variant of calculate_watts: the square where the cube belongs.
calculate_watts_squared(split_500, tie_up) ==
    IF split_500.n <= 0 THEN Zero
    ELSE LET pace == RatDiv(split_500, Rat(500, 1))
         IN  Round2(RatDiv(Rat(28, 10), RatMul(pace, pace)), tie_up)

\* Lines 211-217; tie_up: the side of a half-way value the double falls on.
calculate_watts(split_500, tie_up) ==
    IF split_500.n <= 0 THEN Zero
    ELSE LET pace == split_500
         IN  Round2(RatDiv(Rat(28, 10),
                           RatCube(RatDiv(pace, Rat(500, 1)))), tie_up)

\* Lines 219-223; tie_up: the side of a half-way quotient the double falls on.
calculate_watts_per_kg(watts, weight, tie_up) ==
    IF weight.n <= 0 THEN Zero
    ELSE Round2(RatDiv(watts, weight), tie_up)

\* Python's truth value of an Optional[float]: None and 0 are false.
Truthy(opt) == opt # <<>> /\ opt[1] # Zero

\* Line 813: test_data.weight or person.get("weight", 0); every account
\* document has the key (line 270), so the default is never taken.
effective_weight(weight, person) ==
    IF Truthy(weight) THEN weight ELSE person.weight

\* Line 814.
watts_per_kg_of(watts, weight, tie_up) ==
    IF Truthy(weight)
    THEN <<calculate_watts_per_kg(watts, weight[1], tie_up)>>
    ELSE <<>>

\* ------------------------------------------------------------- create_test
\* Lines 803-806: a coach and the subject share a society.
create_test_permitted(user, person) ==
    ToSet(user.society_ids) \cap ToSet(person.society_ids) # {}

\* Line 817: the subject's first society, None when there is none.
primary_society(person) ==
    IF person.society_ids # <<>> THEN person.society_ids[1] ELSE None

\* Lines 809-836: the metrics and the stored document, from the arguments
\* and the subject read at line 787.
test_doc(person, athlete_id, date, distance, time_seconds, test_weight, watts_tie_up, tie_up) ==
    LET split_500 == calculate_split_500(distance, time_seconds)
        watts == calculate_watts(split_500, watts_tie_up)
        weight == effective_weight(test_weight, person)
    IN  [athlete_id |-> athlete_id,
         society_id |-> primary_society(person),
         date |-> date,
         distance |-> distance,
         time_seconds |-> time_seconds,
         split_500 |-> split_500,
         watts |-> watts,
         watts_per_kg |-> watts_per_kg_of(watts, weight, tie_up),
         weight |-> weight]

\* Lines 787-801: find_one of the subject (line 787) and the checks up to the
\* next await, which is line 802 for a coach adding a test for somebody else
\* and line 838 otherwise.  The document of lines 809-836 depends on the
\* arguments and on the subject read here only; it is kept with the call.
create_test_find_person(p, caller, athlete_id, date, distance, time_seconds, weight) ==
    /\ Free(p)
    /\ caller \in tokens
    /\ Len(tests) + InFlight("create_test") < MaxTests
    /\ LET person == FindById(users, athlete_id)
           role == users[caller].role
       IN
       IF ~Exists(users, athlete_id)
       THEN Reply(p, Response("create_test", caller, athlete_id, 0, None,
                              404, <<>>))
       ELSE IF role = ATHLETE /\ caller # athlete_id
       THEN Reply(p, Response("create_test", caller, athlete_id, 0, None,
                              403, <<>>))
       ELSE \E watts_tie_up \in BOOLEAN, tie_up \in BOOLEAN :
              /\ calls' = [calls EXCEPT ![p] =
                     [Idle EXCEPT !.op = "create_test",
                                  !.pc = IF role = COACH /\ caller # athlete_id
                                         THEN "user" ELSE "insert",
                                  !.caller = caller,
                                  !.target = athlete_id,
                                  !.doc = person,
                                  !.test = test_doc(person, athlete_id, date,
                                                    distance, time_seconds,
                                                    weight, watts_tie_up,
                                                    tie_up)]]
              /\ UNCHANGED last
    /\ UNCHANGED <<users, tests, tokens>>
    /\ UNCHANGED other_stores

\* Lines 802-807: find_one of the coach (line 802), compared with the
\* subject as read at line 787.
create_test_find_user(p) ==
    /\ calls[p].op = "create_test"
    /\ calls[p].pc = "user"
    /\ LET c == calls[p]
           user == FindById(users, c.caller)
       IN IF ~create_test_permitted(user, c.doc)
          THEN Reply(p, Response("create_test", c.caller, c.target, 0, None,
                                 403, <<>>))
          ELSE /\ calls' = [calls EXCEPT ![p].pc = "insert"]
               /\ UNCHANGED last
    /\ UNCHANGED <<users, tests, tokens>>
    /\ UNCHANGED other_stores

\* Lines 838-839: the document is inserted before the response model is
\* built; Test.society_id is a required str, so a subject without a society
\* makes Test(**test_doc) raise after the insert.
create_test_insert(p) ==
    /\ calls[p].op = "create_test"
    /\ calls[p].pc = "insert"
    /\ LET c == calls[p] IN
       /\ tests' = Append(tests, c.test)
       /\ Reply(p, Response("create_test", c.caller, c.target, 0, None,
                            IF c.test.society_id = None THEN 500 ELSE 200,
                            <<Len(tests) + 1>>))
    /\ UNCHANGED <<users, tokens>>
    /\ UNCHANGED other_stores

\* --------------------------------------------------------------- get_tests
\* Every value an athlete_id may take: a query without the key admits all.
AnyId == Ids \cup TestIds

\* Lines 853-857: the ids of the athletes of the coach's societies.
athletes_in_societies(us, user) ==
    {i \in DOMAIN us : /\ SocietyIn(us[i], user.society_ids)
                       /\ us[i].role = ATHLETE}

\* Lines 860-862: "if athlete_id:"; a given, non-empty athlete_id replaces the
\* scope; with the parameter absent (0) or the empty string (EmptyId) the
\* scope of the role stays.
get_tests_query(scope, athlete_id) ==
    IF TruthyId(athlete_id) THEN {athlete_id} ELSE scope

\* A string is kept as the sequence of its characters, a digit as its value.
\* Python's and the store's order of strings: at the first position where
\* two strings differ the smaller character decides, and a proper prefix
\* comes first.
RECURSIVE StrLE(_, _)
StrLE(a, b) ==
    IF a = <<>> THEN TRUE
    ELSE IF b = <<>> THEN FALSE
    ELSE IF Head(a) # Head(b) THEN Head(a) < Head(b)
    ELSE StrLE(Tail(a), Tail(b))

\* sort("date", -1): latest date first, store order among equal dates.
RECURSIVE SortByDateDesc(_, _)
SortByDateDesc(ts, S) ==
    IF S = {} THEN <<>>
    ELSE LET top == {i \in S : \A j \in S : StrLE(ts[j].date, ts[i].date)}
             first == Min(top)
         IN <<first>> \o SortByDateDesc(ts, S \ {first})

\* Lines 864-865 and the response model List[Test] of line 841: the tests
\* matching the query, latest first; <<>> when a test among them has no
\* society_id, which the model Test does not accept.
get_tests_result(ts, query) ==
    SortByDateDesc(ts, {t \in DOMAIN ts : ts[t].athlete_id \in query})

get_tests_code(ts, result) ==
    IF \E i \in DOMAIN result : ts[result[i]].society_id = None
    THEN 500 ELSE 200

get_tests_reply(p, caller, athlete_id, query) ==
    LET result == get_tests_result(tests, query)
        code == get_tests_code(tests, result)
    IN  Reply(p, Response("get_tests", caller, athlete_id, 0, None, code,
                          IF code = 200 THEN result ELSE <<>>))

\* Lines 843-864 up to the first await: line 850 for a coach, line 864 for
\* the others, who are answered in the same step.  A coach without society
\* goes on to line 864, the others to line 853.
get_tests_start(p, caller, athlete_id) ==
    /\ Free(p)
    /\ caller \in tokens
    /\ LET role == users[caller].role
           user == FindById(users, caller)
       IN IF role = COACH
          THEN /\ calls' = [calls EXCEPT ![p] =
                      [Idle EXCEPT !.op = "get_tests",
                                   !.pc = IF user # NoDoc /\ user.society_ids # <<>>
                                          THEN "athletes" ELSE "tests",
                                   !.caller = caller,
                                   !.target = athlete_id,
                                   !.doc = user,
                                   !.ids = AnyId]]
               /\ UNCHANGED last
          ELSE get_tests_reply(p, caller, athlete_id,
                               get_tests_query(IF role = ATHLETE
                                               THEN {caller} ELSE AnyId,
                                               athlete_id))
    /\ UNCHANGED <<users, tests, tokens>>
    /\ UNCHANGED other_stores

\* Lines 853-858: the athletes of the societies read at line 850.
get_tests_find_athletes(p) ==
    /\ calls[p].op = "get_tests"
    /\ calls[p].pc = "athletes"
    /\ calls' = [calls EXCEPT ![p].pc = "tests",
                              ![p].ids = athletes_in_societies(users, calls[p].doc)]
    /\ UNCHANGED <<users, tests, tokens, last>>
    /\ UNCHANGED other_stores

\* Lines 860-865 for a coach.
get_tests_find(p) ==
    /\ calls[p].op = "get_tests"
    /\ calls[p].pc = "tests"
    /\ LET c == calls[p] IN
       get_tests_reply(p, c.caller, c.target, get_tests_query(c.ids, c.target))
    /\ UNCHANGED <<users, tests, tokens>>
    /\ UNCHANGED other_stores

\* ------------------------------------------------------- get_athlete_stats
\* Faulty variant of can_view: the designated-coach grant read in the wrong
\* direction.
can_view_reversed_grant(caller, athlete_id, current_user_doc, target_user) ==
    \/ ToSet(current_user_doc.society_ids)
           \cap ToSet(target_user.society_ids) # {}
    \/ current_user_doc.designated_coach_id = athlete_id

\* Lines 887-894: can_view for a coach looking at somebody else.
can_view(caller, athlete_id, current_user_doc, target_user) ==
    \/ ToSet(current_user_doc.society_ids)
           \cap ToSet(target_user.society_ids) # {}
    \/ target_user.designated_coach_id = caller

\* x <= y for floats.
RatLE(x, y) == x.n * y.d <= y.n * x.d

\* Lines 910-916: the groups of tests of equal distance.
tests_by_distance(ts, S) ==
    {{t \in S : ts[t].distance = ts[u].distance} : u \in S}

\* Lines 921-922: sorted() is stable, so the first of the fastest tests.
best_test(ts, G) ==
    Min({t \in G : \A u \in G :
            RatLE(ts[t].time_seconds, ts[u].time_seconds)})

\* Line 923: sorted(..., reverse=True) keeps the store order among tests of
\* equal date, so the first of the tests with the greatest date string.
latest_test(ts, G) ==
    Min({t \in G : \A u \in G : StrLE(ts[u].date, ts[t].date)})

\* Lines 926-937.
stats_entry(ts, G) ==
    LET summary(t) == [time_seconds |-> ts[t].time_seconds,
                       split_500 |-> ts[t].split_500,
                       watts |-> ts[t].watts,
                       date |-> ts[t].date]
    IN  [best |-> summary(best_test(ts, G)),
         latest |-> summary(latest_test(ts, G)),
         count |-> Cardinality(G)]

\* Line 925: the key of a group, f"{int(distance)}m", kept as the integer.
stats_key(ts, G) == IntPart(ts[Min(G)].distance)

\* Lines 919-938: the groups are visited in the order of their first test
\* and each writes stats[key]; of the groups with one key the last visited
\* remains.
stats_of(ts, S) ==
    LET groups == tests_by_distance(ts, S)
        keys == {stats_key(ts, G) : G \in groups}
    IN  [k \in keys |->
            LET same == {G \in groups : stats_key(ts, G) = k}
                G == CHOOSE H \in same : \A I \in same : Min(I) <= Min(H)
            IN  stats_entry(ts, G)]

\* Lines 870-900: find_one of the subject (line 870) and the checks up to
\* the next await: line 887 for a coach looking at somebody else, line 904
\* for the subject and for a super_admin.
get_athlete_stats_find_target(p, caller, athlete_id) ==
    /\ Free(p)
    /\ caller \in tokens
    /\ LET target_user == FindById(users, athlete_id)
           role == users[caller].role
       IN
       IF ~Exists(users, athlete_id)
       THEN Reply(p, Response("get_athlete_stats", caller, athlete_id, 0,
                              None, 404, <<>>))
       ELSE IF caller = athlete_id \/ role \in {SUPER_ADMIN, COACH}
       THEN /\ calls' = [calls EXCEPT ![p] =
                   [Idle EXCEPT !.op = "get_athlete_stats",
                                !.pc = IF caller # athlete_id /\ role = COACH
                                       THEN "user" ELSE "tests",
                                !.caller = caller,
                                !.target = athlete_id,
                                !.doc = target_user]]
            /\ UNCHANGED last
       ELSE Reply(p, Response("get_athlete_stats", caller, athlete_id, 0,
                              None, 403, <<>>))
    /\ UNCHANGED <<users, tests, tokens>>
    /\ UNCHANGED other_stores

\* Lines 887-900: find_one of the coach (line 887), compared with the
\* subject as read at line 870.
get_athlete_stats_find_user(p) ==
    /\ calls[p].op = "get_athlete_stats"
    /\ calls[p].pc = "user"
    /\ LET c == calls[p]
           current_user_doc == FindById(users, c.caller)
       IN IF ~can_view(c.caller, c.target, current_user_doc, c.doc)
          THEN Reply(p, Response("get_athlete_stats", c.caller, c.target, 0,
                                 None, 403, <<>>))
          ELSE /\ calls' = [calls EXCEPT ![p].pc = "tests"]
               /\ UNCHANGED last
    /\ UNCHANGED <<users, tests, tokens>>
    /\ UNCHANGED other_stores

\* Lines 904-945; out holds the subject's tests in store order (all_tests).
get_athlete_stats_find_tests(p) ==
    /\ calls[p].op = "get_athlete_stats"
    /\ calls[p].pc = "tests"
    /\ LET c == calls[p]
           S == {t \in DOMAIN tests : tests[t].athlete_id = c.target}
       IN  Reply(p, [Response("get_athlete_stats", c.caller, c.target, 0,
                              None, 200, SortedSeq(S))
                       EXCEPT !.stats = stats_of(tests, S)])
    /\ UNCHANGED <<users, tests, tokens>>
    /\ UNCHANGED other_stores

\* ------------------------------------------------------- metrics of a test
\* Accounts of earlier runs: the athlete registered with a weight, the others
\* without.
MetricSeedUsers ==
    [TestSeedUsers EXCEPT ![4].weight = <<Rat(70, 1)>>]

MetricSubjects == {2, 4}           \* without and with a stored weight
Distances == {Rat(500, 1), Zero, Rat(0 - 500, 1)}
Times == {Rat(95, 1), Rat(500, 1), Zero, Rat(0 - 95, 1)}
Weights == {<<>>, <<Zero>>, <<Rat(0 - 5, 1)>>, <<Rat(80, 1)>>}

InitMetrics ==
    /\ users = MetricSeedUsers
    /\ tests = <<>>
    /\ tokens = DOMAIN users
    /\ calls = [p \in Procs |-> Idle]
    /\ last = Response("none", 0, 0, 0, None, 0, <<>>)
    /\ InitOther

NextMetrics ==
    \/ \E p \in Procs, c \in DesignationCallers, a \in MetricSubjects,
          d \in TestDates, m \in Distances, t \in Times, w \in Weights :
          /\ Len(tests) + InFlight("create_test") < MaxMetricTests
          /\ create_test_find_person(p, c, a, d, m, t, w)
    \/ \E p \in Procs : create_test_find_user(p)
    \/ \E p \in Procs : create_test_insert(p)

SpecMetrics == InitMetrics /\ [][NextMetrics]_vars

\* --------------------------------------------------- statistics of a subject
StatCallers == {1, 4}              \* a super_admin, the athlete
StatSubjects == {2, 4}
StatDates == {<<9>>, <<1, 0>>}     \* the date strings "9" and "10"
StatDistances == {Rat(2, 1), Rat(5, 2)}
StatTimes == {Rat(1, 1), Rat(2, 1)}

InitStats ==
    /\ users = TestSeedUsers
    /\ tests = <<>>
    /\ tokens = DOMAIN users
    /\ calls = [p \in Procs |-> Idle]
    /\ last = Response("none", 0, 0, 0, None, 0, <<>>)
    /\ InitOther

NextStats ==
    \/ \E p \in Procs, a \in StatSubjects, d \in StatDates,
          m \in StatDistances, t \in StatTimes :
          create_test_find_person(p, 1, a, d, m, t, <<>>)
    \/ \E p \in Procs : create_test_insert(p)
    \/ \E p \in Procs, c \in StatCallers, a \in StatSubjects :
          get_athlete_stats_find_target(p, c, a)
    \/ \E p \in Procs : get_athlete_stats_find_tests(p)

SpecStats == InitStats /\ [][NextStats]_vars

\* Performance tests, their visibility and the designated-coach grant, over a
\* store whose accounts are all approved and logged in.
InitTests ==
    /\ users = TestSeedUsers
    /\ tests = <<>>
    /\ tokens = DOMAIN users
    /\ calls = [p \in Procs |-> Idle]
    /\ last = Response("none", 0, 0, 0, None, 0, <<>>)
    /\ InitOther

\* <<caller, athlete_id>> of the create_test calls: a super_admin, a coach
\* and an athlete for themselves, the coaches for the athlete, the athlete
\* for a coach, and an id no account has.
CreateTestPairs ==
    {<<1, 1>>, <<2, 2>>, <<2, 4>>, <<3, 4>>, <<4, 4>>, <<4, 2>>, <<1, 5>>}
\* <<caller, athlete_id>> of the get_tests calls; 0 is the absent filter,
\* EmptyId the empty string.
GetTestsPairs ==
    {<<1, 0>>, <<2, 0>>, <<2, 2>>, <<2, EmptyId>>, <<3, 0>>, <<4, 0>>, <<4, 2>>,
     <<4, EmptyId>>}

NextTests ==
    \/ \E p \in Procs, ca \in CreateTestPairs, d \in TestDates :
          create_test_find_person(p, ca[1], ca[2], d, Rat(2000, 1),
                                  Rat(420, 1), <<>>)
    \/ \E p \in Procs : create_test_find_user(p)
    \/ \E p \in Procs : create_test_insert(p)
    \/ \E p \in Procs, ca \in GetTestsPairs :
          get_tests_start(p, ca[1], ca[2])
    \/ \E p \in Procs : get_tests_find_athletes(p)
    \/ \E p \in Procs : get_tests_find(p)

SpecTests == InitTests /\ [][NextTests]_vars

NextConc ==
    \/ \E p \in Procs, e \in Emails, r \in ConcRoleInputs : register_find(p, e, r, None)
    \/ \E p \in Procs : register_count(p)
    \/ \E p \in Procs : register_insert(p)
    \/ \E p \in Procs, c \in Ids, u \in Ids : approve_find(p, c, u)
    \/ \E p \in Procs : approve_check(p)
    \/ \E p \in Procs : approve_update(p)
    \/ \E p \in Procs, c \in Ids, u \in Ids : reject_find(p, c, u)
    \/ \E p \in Procs : reject_check(p)
    \/ \E p \in Procs : reject_update(p)

SpecConc == Init /\ [][NextConc]_vars

\* Approval and rejection over a store of earlier registrations: a
\* super_admin, two coaches and an athlete that were approved, and three
\* accounts still pending.
ApprovalSeedUsers ==
    << user_doc(OperatorEmail, SUPER_ADMIN, None, APPROVED),
       user_doc("coach@x.it", COACH, "A", APPROVED),
       user_doc("ath@x.it", ATHLETE, "B", APPROVED),
       user_doc("ath2@x.it", ATHLETE, "A", PENDING),
       user_doc("admin2@x.it", SUPER_ADMIN, "A", PENDING),
       user_doc("ath3@x.it", ATHLETE, "D", PENDING),
       user_doc("coach2@x.it", COACH, None, APPROVED) >>

\* <<caller, target>> of the approve and reject calls.
ApprovalPairs == {<<1, 4>>, <<1, 5>>, <<2, 4>>, <<2, 5>>, <<2, 6>>, <<3, 4>>}

InitApproval ==
    /\ users = ApprovalSeedUsers
    /\ tests = <<>>
    /\ tokens = {i \in DOMAIN users : users[i].status = APPROVED}
    /\ calls = [p \in Procs |-> Idle]
    /\ last = Response("none", 0, 0, 0, None, 0, <<>>)
    /\ InitOther

NextApproval ==
    \/ \E p \in Procs, ct \in ApprovalPairs : approve_find(p, ct[1], ct[2])
    \/ \E p \in Procs : approve_check(p)
    \/ \E p \in Procs : approve_update(p)
    \/ \E p \in Procs, ct \in ApprovalPairs : reject_find(p, ct[1], ct[2])
    \/ \E p \in Procs : reject_check(p)
    \/ \E p \in Procs : reject_update(p)

SpecApproval == InitApproval /\ [][NextApproval]_vars

\* Account listing by a super_admin, a coach, an athlete and a coach without
\* society, while accounts are being approved and rejected.
ListingCallers == {1, 2, 3, 7}
ListingPairs == {<<1, 5>>, <<2, 4>>}

NextListing ==
    \/ \E p \in Procs, c \in ListingCallers, f \in StatusFilters :
          get_users_start(p, c, f)
    \/ \E p \in Procs : get_users_find(p)
    \/ \E p \in Procs, ct \in ListingPairs : approve_find(p, ct[1], ct[2])
    \/ \E p \in Procs : approve_check(p)
    \/ \E p \in Procs : approve_update(p)
    \/ \E p \in Procs, ct \in ListingPairs : reject_find(p, ct[1], ct[2])
    \/ \E p \in Procs : reject_check(p)
    \/ \E p \in Procs : reject_update(p)

SpecListing == InitApproval /\ [][NextListing]_vars

\* The listing of the accounts awaiting approval, while accounts are being
\* approved.
NextPending ==
    \/ \E p \in Procs, c \in ListingCallers : get_pending_users_start(p, c)
    \/ \E p \in Procs : get_pending_users_find(p)
    \/ \E p \in Procs, ct \in ApprovalPairs : approve_find(p, ct[1], ct[2])
    \/ \E p \in Procs : approve_check(p)
    \/ \E p \in Procs : approve_update(p)

SpecPending == InitApproval /\ [][NextPending]_vars

\* Login while accounts are being registered, approved and rejected.
LoginPairs == {<<1, 2>>}
\* <<email, role, society_id>> of the register calls.
RegisterInputs ==
    {<<OperatorEmail, SUPER_ADMIN, None>>, <<"new@x.it", ATHLETE, "">>,
     <<"new@x.it", SUPER_ADMIN, "A">>, <<"new@x.it", "guest", None>>}

NextLogin ==
    \/ \E e \in LoginEmails, w \in LoginPasswords : login(e, w)
    \/ \E p \in Procs, r \in RegisterInputs :
          register_find(p, r[1], r[2], r[3])
    \/ \E p \in Procs : register_count(p)
    \/ \E p \in Procs : register_insert(p)
    \/ \E p \in Procs, ct \in LoginPairs : approve_find(p, ct[1], ct[2])
    \/ \E p \in Procs : approve_check(p)
    \/ \E p \in Procs : approve_update(p)
    \/ \E p \in Procs, ct \in LoginPairs : reject_find(p, ct[1], ct[2])
    \/ \E p \in Procs : reject_check(p)
    \/ \E p \in Procs : reject_update(p)

SpecLogin == Init /\ [][NextLogin]_vars

\* The designated-coach grant and the statistics it opens, over a store whose
\* accounts are all approved and logged in.
\* <<caller, user_id, coach_id>> of the set_designated_coach calls.
DesignationInputs ==
    {<<1, 3, 2>>, <<1, 3, 0>>, <<1, 3, 4>>, <<1, 3, 5>>, <<1, 3, EmptyId>>,
     <<1, 1, 2>>, <<1, 4, 2>>, <<1, 5, 2>>, <<2, 3, 2>>}

\* <<caller, athlete_id>> of the get_athlete_stats calls.
StatsPairs ==
    {<<1, 3>>, <<2, 3>>, <<3, 2>>, <<2, 4>>, <<3, 4>>, <<4, 2>>, <<4, 4>>,
     <<2, 5>>}

NextDesignation ==
    \/ \E p \in Procs, d \in DesignationInputs :
          set_designated_coach_find_user(p, d[1], d[2], d[3])
    \/ \E p \in Procs : set_designated_coach_find_coach(p)
    \/ \E p \in Procs : set_designated_coach_update(p)
    \/ \E p \in Procs, ca \in StatsPairs :
          get_athlete_stats_find_target(p, ca[1], ca[2])
    \/ \E p \in Procs : get_athlete_stats_find_user(p)
    \/ \E p \in Procs : get_athlete_stats_find_tests(p)

SpecDesignation == InitTests /\ [][NextDesignation]_vars

\* =================================================== administrative handlers
\* The wall clock advances between requests; time is counted in seconds, in
\* steps of half an hour.  isoformat() strings of UTC instants compare as the
\* instants do, so "expiry" fields are kept as seconds.
TickInputs == {1800}

Tick ==
    /\ now < MaxTicks * 1800
    /\ \E d \in TickInputs : now' = now + d
    /\ UNCHANGED <<users, tests, tokens, calls, last,
                   societies, requests, resets, attempts, year, issued>>

\* datetime.now().year (local time) moves on at new year.
NewYear ==
    /\ year < 2026 + MaxYears
    /\ year' = year + 1
    /\ UNCHANGED <<users, tests, tokens, calls, last,
                   societies, requests, resets, attempts, now, issued>>

\* Faulty variant of calculate_category_from_birth_year: SENIOR up to 27.
calculate_category_senior_27(current_year, birth_year) ==
    LET age_in_year == current_year - birth_year IN
    IF age_in_year = 10 THEN "ALLIEVI A"
    ELSE IF age_in_year = 11 THEN "ALLIEVI B1"
    ELSE IF age_in_year = 12 THEN "ALLIEVI B2"
    ELSE IF age_in_year = 13 THEN "ALLIEVI C"
    ELSE IF age_in_year = 14 THEN "CADETTI"
    ELSE IF age_in_year = 15 \/ age_in_year = 16 THEN "RAGAZZI"
    ELSE IF age_in_year = 17 \/ age_in_year = 18 THEN "JUNIOR"
    ELSE IF age_in_year >= 19 /\ age_in_year <= 22 THEN "UNDER 23"
    ELSE IF age_in_year >= 23 /\ age_in_year <= 27 THEN "SENIOR"
    ELSE IF age_in_year >= 28 THEN "MASTER"
    ELSE "NON CLASSIFICATO"

\* Lines 57-85.
calculate_category_from_birth_year(current_year, birth_year) ==
    LET age_in_year == current_year - birth_year IN
    IF age_in_year = 10 THEN "ALLIEVI A"
    ELSE IF age_in_year = 11 THEN "ALLIEVI B1"
    ELSE IF age_in_year = 12 THEN "ALLIEVI B2"
    ELSE IF age_in_year = 13 THEN "ALLIEVI C"
    ELSE IF age_in_year = 14 THEN "CADETTI"
    ELSE IF age_in_year = 15 \/ age_in_year = 16 THEN "RAGAZZI"
    ELSE IF age_in_year = 17 \/ age_in_year = 18 THEN "JUNIOR"
    ELSE IF age_in_year >= 19 /\ age_in_year <= 22 THEN "UNDER 23"
    ELSE IF age_in_year >= 23 /\ age_in_year <= 26 THEN "SENIOR"
    ELSE IF age_in_year >= 27 THEN "MASTER"
    ELSE "NON CLASSIFICATO"

\* Accounts of earlier runs with birth years; the athlete's category was
\* computed in 2024 and never since.
AdminSeedUsers ==
    << [email |-> OperatorEmail, role |-> SUPER_ADMIN, status |-> APPROVED,
        society_ids |-> <<>>, designated_coach_id |-> 0,
        birth_year |-> <<>>, category |-> None,
        password |-> hash_password("pw0"), weight |-> <<>>],
       [email |-> "coach@x.it", role |-> COACH, status |-> APPROVED,
        society_ids |-> <<"B">>, designated_coach_id |-> 0,
        birth_year |-> <<1990>>, category |-> "MASTER",
        password |-> hash_password("pw0"), weight |-> <<>>],
       [email |-> "coach2@x.it", role |-> COACH, status |-> APPROVED,
        society_ids |-> <<>>, designated_coach_id |-> 0,
        birth_year |-> <<2000>>, category |-> "SENIOR",
        password |-> hash_password("pw0"), weight |-> <<>>],
       [email |-> "ath@x.it", role |-> ATHLETE, status |-> APPROVED,
        society_ids |-> <<"B">>, designated_coach_id |-> 0,
        birth_year |-> <<2010>>, category |-> "CADETTI",
        password |-> hash_password("pw0"), weight |-> <<>>] >>

\* Reset documents of forgot_password calls of the hour before the process
\* started (a document expires an hour after it was stored), the second
\* since redeemed by a reset_password call.
SeedResets ==
    << [user_id |-> 4, token |-> 1, expiry |-> 1800, used |-> FALSE],
       [user_id |-> 2, token |-> 2, expiry |-> 3600, used |-> TRUE],
       [user_id |-> 2, token |-> 3, expiry |-> 3600, used |-> FALSE] >>

AdminCallers == {1, 2, 4}          \* a super_admin, a coach, an athlete
AdminTargets == {2, 4}
AdminCoachIds == {0, 3}
SocietyNames == {"Retica"}

\* uuid4: an id no stored society has.
SocietyIdPool == <<"S1", "S2", "S3", "S4">>

\* Line 485: an id that no stored society and no create_society call in
\* flight has.
NewSocietyId ==
    LET taken == {societies[i].id : i \in DOMAIN societies}
                    \cup {calls[q].society_doc.id : q \in Procs}
    IN  SocietyIdPool[Min({k \in DOMAIN SocietyIdPool :
                              SocietyIdPool[k] \notin taken})]

\* create_society, lines 482-490: the role check and the document, whose
\* created_at is the instant read before insert_one is awaited.
create_society_doc(p, caller, name) ==
    /\ Free(p)
    /\ caller \in tokens
    /\ Len(societies) + InFlight("create_society") < MaxSocieties
    /\ IF admin_forbidden(users[caller].role)
       THEN Reply(p, Response("create_society", caller, 0, 0, None,
                              403, <<>>))
       ELSE /\ calls' = [calls EXCEPT ![p] =
                   [Idle EXCEPT !.op = "create_society",
                                !.pc = "insert",
                                !.caller = caller,
                                !.society_doc =
                                    [id |-> NewSocietyId, name |-> name,
                                     created_at |-> now]]]
            /\ UNCHANGED last
    /\ UNCHANGED <<users, tests, tokens>>
    /\ UNCHANGED other_stores

\* create_society, lines 491-492: insert_one and the response.
create_society_insert(p) ==
    /\ calls[p].op = "create_society" /\ calls[p].pc = "insert"
    /\ societies' = Append(societies, calls[p].society_doc)
    /\ Reply(p, Response("create_society", calls[p].caller, 0, 0,
                         calls[p].society_doc.id, 200, <<>>))
    /\ UNCHANGED <<users, tests, tokens,
                   requests, resets, attempts, now, year, issued>>

\* Lines 620-623: positions of the accounts that have a birth year.
users_with_birth_year(us) == {i \in DOMAIN us : us[i].birth_year # <<>>}

\* Faulty variant of category_out_of_date: every account is written.
category_out_of_date_always(user, current_year) == TRUE

\* Lines 628-629: the category read by find differs from the one of the
\* table; calculate_category_from_birth_year reads the clock at each call.
category_out_of_date(user, current_year) ==
    user.category
        # calculate_category_from_birth_year(current_year, user.birth_year[1])

\* Lines 621-624: the documents find returns, in store order, each with the
\* id, the birth year and the category it had when read.
birth_year_docs(us) ==
    [k \in 1..Cardinality(users_with_birth_year(us)) |->
        LET i == SortedSeq(users_with_birth_year(us))[k]
        IN  [id |-> i, birth_year |-> us[i].birth_year,
             category |-> us[i].category]]

\* Lines 627-629: the position in the list, from k on, of the first document
\* to update; 0 when the loop reaches the end of the list.
next_to_update(list, k, current_year) ==
    LET stale == {j \in k..Len(list) :
                    category_out_of_date(list[j], current_year)}
    IN  IF stale = {} THEN 0 ELSE Min(stale)

\* Lines 627-640 from position k of the list up to the next await: the loop
\* is suspended at the update_one of line 630 with the category computed in
\* the year of this step, or it ends and the call is answered.
recalculate_loop(p, caller, list, updated_count, k) ==
    LET j == next_to_update(list, k, year) IN
    IF j = 0
    THEN Reply(p, Response("recalculate_all_categories", caller, 0, 0, None,
                           200, <<updated_count, Len(list)>>))
    ELSE /\ calls' = [calls EXCEPT ![p] =
                [Idle EXCEPT !.op = "recalculate_all_categories",
                             !.pc = "update",
                             !.caller = caller,
                             !.list = list,
                             !.count = updated_count,
                             !.target = j,
                             !.category =
                                 calculate_category_from_birth_year(
                                     year, list[j].birth_year[1])]]
         /\ UNCHANGED last

\* Lines 618-629: the role check, find (line 621) and the loop up to the
\* first update.
recalculate_all_categories_find(p, caller) ==
    /\ Free(p)
    /\ caller \in tokens
    /\ IF admin_forbidden(users[caller].role)
       THEN Reply(p, Response("recalculate_all_categories", caller, 0, 0,
                              None, 403, <<>>))
       ELSE recalculate_loop(p, caller, birth_year_docs(users), 0, 1)
    /\ UNCHANGED <<users, tests, tokens>>
    /\ UNCHANGED other_stores

\* Lines 630-634: update_one of the account the loop stopped at, and the
\* loop from the next document on.
recalculate_all_categories_update(p) ==
    /\ calls[p].op = "recalculate_all_categories"
    /\ calls[p].pc = "update"
    /\ LET c == calls[p] IN
       /\ users' = [users EXCEPT ![c.list[c.target].id].category = c.category]
       /\ recalculate_loop(p, c.caller, c.list, c.count + 1, c.target + 1)
    /\ UNCHANGED <<tests, tokens>>
    /\ UNCHANGED other_stores

\* Line 648 and line 383: isoformat() of a UTC instant of whole seconds, as
\* the digits of its time of day HH:MM:SS (whole seconds have no fractional
\* part; the date and the "+00:00" suffix are those of every instant of the
\* day and are left out).
isoformat(t) ==
    LET h == t \div 3600
        m == (t % 3600) \div 60
        sec == t % 60
    IN  <<h \div 10, h % 10, m \div 10, m % 10, sec \div 10, sec % 10>>

\* {"$lt": now} on two strings.
StrLT(a, b) == StrLE(a, b) /\ a # b

\* Faulty variant of reset_deletable: used tokens are kept until they expire.
reset_deletable_expired_only(doc, t) ==
    StrLT(isoformat(doc.expiry), isoformat(t))

\* Lines 651-656: the filter of delete_many; the stored expiry string is
\* compared with the string of the current instant.
reset_deletable(doc, t) ==
    StrLT(isoformat(doc.expiry), isoformat(t)) \/ doc.used

\* cleanup_expired_tokens, lines 645-648: the role check and the instant
\* read before delete_many is awaited.
cleanup_expired_tokens_now(p, caller) ==
    /\ Free(p)
    /\ caller \in tokens
    /\ IF admin_forbidden(users[caller].role)
       THEN Reply(p, Response("cleanup_expired_tokens", caller, 0, 0,
                              None, 403, <<>>))
       ELSE /\ calls' = [calls EXCEPT ![p] =
                   [Idle EXCEPT !.op = "cleanup_expired_tokens",
                                !.pc = "delete",
                                !.caller = caller,
                                !.clock = now]]
            /\ UNCHANGED last
    /\ UNCHANGED <<users, tests, tokens>>
    /\ UNCHANGED other_stores

\* cleanup_expired_tokens, lines 651-661: delete_many with the instant read
\* at line 648, and the response with the number of documents deleted.
cleanup_expired_tokens_delete(p) ==
    /\ calls[p].op = "cleanup_expired_tokens" /\ calls[p].pc = "delete"
    /\ resets' = SelectSeq(resets,
                           LAMBDA d : ~reset_deletable(d, calls[p].clock))
    /\ Reply(p, Response("cleanup_expired_tokens", calls[p].caller, 0, 0,
                         None, 200, <<Len(resets) - Len(resets')>>))
    /\ UNCHANGED <<users, tests, tokens,
                   societies, requests, attempts, now, year, issued>>

InitAdmin ==
    /\ users = AdminSeedUsers
    /\ tests = <<>>
    /\ tokens = DOMAIN users
    /\ calls = [p \in Procs |-> Idle]
    /\ last = Response("none", 0, 0, 0, None, 0, <<>>)
    /\ societies = <<>>
    /\ requests = <<>>
    /\ resets = SeedResets
    /\ attempts = NoAttempts
    /\ now = 0
    /\ year = 2026
    /\ issued = Len(SeedResets)

NextAdmin ==
    \/ \E p \in Procs, c \in AdminCallers, n \in SocietyNames :
          create_society_doc(p, c, n)
    \/ \E p \in Procs : create_society_insert(p)
    \/ \E p \in Procs, c \in AdminCallers :
          recalculate_all_categories_find(p, c)
    \/ \E p \in Procs : recalculate_all_categories_update(p)
    \/ \E p \in Procs, c \in AdminCallers : cleanup_expired_tokens_now(p, c)
    \/ \E p \in Procs : cleanup_expired_tokens_delete(p)
    \/ Tick
    \/ NewYear

SpecAdmin == InitAdmin /\ [][NextAdmin]_vars

\* The four administrative handlers called by every role, the clock standing
\* still.
NextAdminCalls ==
    \/ \E p \in Procs, c \in AdminCallers, n \in SocietyNames :
          create_society_doc(p, c, n)
    \/ \E p \in Procs : create_society_insert(p)
    \/ \E p \in Procs, c \in AdminCallers, u \in AdminTargets,
          k \in AdminCoachIds : set_designated_coach_find_user(p, c, u, k)
    \/ \E p \in Procs : set_designated_coach_find_coach(p)
    \/ \E p \in Procs : set_designated_coach_update(p)
    \/ \E p \in Procs, c \in AdminCallers :
          recalculate_all_categories_find(p, c)
    \/ \E p \in Procs : recalculate_all_categories_update(p)
    \/ \E p \in Procs, c \in AdminCallers : cleanup_expired_tokens_now(p, c)
    \/ \E p \in Procs : cleanup_expired_tokens_delete(p)

SpecAdminCalls == InitAdmin /\ [][NextAdminCalls]_vars

\* ------------------------------------------------- categories of all ages
\* The athlete's birth year ranges over every bracket of the table; the
\* stored category is the one computed the year before.
BirthYears == 1996..2030

CategorySeedUsers(birth_year) ==
    [AdminSeedUsers EXCEPT
        ![4].birth_year = <<birth_year>>,
        ![4].category = calculate_category_from_birth_year(2025, birth_year)]

InitCategory ==
    /\ \E b \in BirthYears : users = CategorySeedUsers(b)
    /\ tests = <<>>
    /\ tokens = DOMAIN users
    /\ calls = [p \in Procs |-> Idle]
    /\ last = Response("none", 0, 0, 0, None, 0, <<>>)
    /\ InitOther

NextCategory ==
    \/ \E p \in Procs, c \in DesignationCallers :
          recalculate_all_categories_find(p, c)
    \/ \E p \in Procs : recalculate_all_categories_update(p)
    \/ NewYear

SpecCategory == InitCategory /\ [][NextCategory]_vars

\* ========================================================= forgot_password
\* Faulty variant of attempt_recent: an attempt exactly one hour old counts.
attempt_recent_inclusive(ts, t) == t - ts <= RateWindowSeconds

\* Line 357: (now - ts).total_seconds() < 3600.
attempt_recent(ts, t) == t - ts < RateWindowSeconds

\* Lines 353-358 and 366: the attempts of an e-mail after pruning, an empty
\* list when the table has no such key.
pruned_attempts(att, email, t) ==
    IF email \in DOMAIN att
    THEN SelectSeq(att[email], LAMBDA ts : attempt_recent(ts, t))
    ELSE <<>>

\* Line 360.
rate_limited(pruned) == Len(pruned) >= RateMaxAttempts

\* Faulty variant of recorded_attempts: the attempt is appended always.
recorded_attempts_always(pruned, t) == Append(pruned, t)

\* Lines 360-368: the 429 is raised before the append is reached.
recorded_attempts(pruned, t) ==
    IF rate_limited(pruned) THEN pruned ELSE Append(pruned, t)

\* Faulty variant of SetAttempts: the table is replaced by a single entry.
SetAttempts_single_key(att, email, list) == [e \in {email} |-> list]

\* Assignment to password_reset_attempts[email].
SetAttempts(att, email, list) ==
    [e \in DOMAIN att \cup {email} |-> IF e = email THEN list ELSE att[e]]

\* uuid4 of line 376: a token never drawn before; the tokens are numbered in
\* the order they are drawn.
NewToken(drawn) == drawn + 1

\* Lines 380-386.
reset_doc(user_id, reset_token, reset_expiry) ==
    [user_id |-> user_id, token |-> reset_token,
     expiry |-> reset_expiry, used |-> FALSE]

\* Faulty variant of recovery_reply: an unknown e-mail is reported.
recovery_reply_reveals(user_id, send_ok) == IF user_id = 0 THEN 404 ELSE 200

\* Lines 370-372 and 439-443: the same message is returned with status 200
\* when no account has the e-mail, when the mail was sent and when sending
\* failed (user_id 0: no account).
recovery_reply(user_id, send_ok) == 200

\* forgot_password, await by await.  send_ok: whether the mail provider
\* accepts the message; a failure is logged and changes neither the store nor
\* the response.
\* Lines 349-368: the limiter runs without an await; the handler is first
\* suspended at find_one (line 370).
forgot_limit(p, email) ==
    /\ Free(p)
    /\ LET pruned == pruned_attempts(attempts, email, now) IN
       /\ attempts' = SetAttempts(attempts, email,
                                  recorded_attempts(pruned, now))
       /\ IF rate_limited(pruned)
          THEN Reply(p, Response("forgot_password", 0, 0, 0, email, 429,
                                 <<>>))
          ELSE /\ calls' = [calls EXCEPT ![p] =
                              [Idle EXCEPT !.op = "forgot_password",
                                           !.pc = "find", !.email = email]]
               /\ UNCHANGED last
    /\ UNCHANGED <<users, tests, tokens,
                   societies, requests, resets, now, year, issued>>

\* Lines 370-377: find_one by e-mail, the token and the expiry, an hour from
\* the moment find_one returns.
forgot_find(p, send_ok) ==
    /\ calls[p].op = "forgot_password" /\ calls[p].pc = "find"
    /\ LET user_id == FindByEmail(users, calls[p].email) IN
       IF user_id = 0
       THEN Reply(p, Response("forgot_password", 0, 0, 0, calls[p].email,
                              recovery_reply(user_id, send_ok), <<>>))
       ELSE /\ calls' = [calls EXCEPT
                   ![p].pc = "insert",
                   ![p].target = user_id,
                   ![p].token = NewToken(issued),
                   ![p].expiry = now + ResetValiditySeconds]
            /\ UNCHANGED last
    /\ issued' = IF FindByEmail(users, calls[p].email) = 0 THEN issued
                 ELSE issued + 1
    /\ UNCHANGED <<users, tests, tokens,
                   societies, requests, resets, attempts, now, year>>

\* Lines 380-386: insert_one.
forgot_insert(p) ==
    /\ calls[p].op = "forgot_password" /\ calls[p].pc = "insert"
    /\ resets' = Append(resets, reset_doc(calls[p].target, calls[p].token,
                                          calls[p].expiry))
    /\ calls' = [calls EXCEPT ![p].pc = "send"]
    /\ UNCHANGED <<users, tests, tokens, last,
                   societies, requests, attempts, now, year, issued>>

\* Lines 430-443: the mail is handed to the provider; the response.
forgot_send(p, send_ok) ==
    /\ calls[p].op = "forgot_password" /\ calls[p].pc = "send"
    /\ Reply(p, Response("forgot_password", 0, 0, 0, calls[p].email,
                         recovery_reply(calls[p].target, send_ok), <<>>))
    /\ UNCHANGED <<users, tests, tokens,
                   societies, requests, resets, attempts, now, year, issued>>

\* The bound on the reset documents: no trigger is made once the documents
\* stored and the triggers in flight number max.
ResetsBelow(max) == Len(resets) + InFlight("forgot_password") < max

RecoveryEmails == {"ath@x.it", "ghost@x.it"}   \* an account's, nobody's

\* The slots recovery calls start in: two calls run at a time, the fewest
\* that race.
RecoverySlots == {1, 2}

\* The clock runs one rate window past the start: long enough for the first
\* attempts to leave the window.
RecoveryHorizon == RateWindowSeconds

InitRecovery ==
    /\ users = TestSeedUsers
    /\ tests = <<>>
    /\ tokens = DOMAIN users
    /\ calls = [p \in Procs |-> Idle]
    /\ last = Response("none", 0, 0, 0, None, 0, <<>>)
    /\ InitOther

NextRecovery ==
    \/ \E p \in RecoverySlots, e \in RecoveryEmails :
          ResetsBelow(MaxResets) /\ forgot_limit(p, e)
    \/ \E p \in Procs, ok \in BOOLEAN : forgot_find(p, ok)
    \/ \E p \in Procs : forgot_insert(p)
    \/ \E p \in Procs, ok \in BOOLEAN : forgot_send(p, ok)
    \/ now < RecoveryHorizon /\ Tick

SpecRecovery == InitRecovery /\ [][NextRecovery]_vars

\* ========================================================== reset_password
\* Lines 449-452: find_one({"token": token, "used": False}); position of the
\* first match, 0 when there is none.
find_unused_reset(rs, token) ==
    LET hits == {i \in DOMAIN rs : rs[i].token = token /\ ~rs[i].used}
    IN  IF hits = {} THEN 0 ELSE Min(hits)

\* Faulty variant of reset_expired: a token never expires.
reset_expired_never(doc, t) == FALSE

\* Lines 458-459: datetime.now(timezone.utc) > expiry.
reset_expired(doc, t) == t > doc.expiry

\* Lines 464-467: update_one on db.users by id.
SetPassword(us, user_id, new_password) ==
    IF Exists(us, user_id)
    THEN [us EXCEPT ![user_id].password = hash_password(new_password)]
    ELSE us

\* Lines 470-473: update_one({"token": token}, {"$set": {"used": True}}) acts
\* on the first document with the token.
MarkUsed(rs, token) ==
    LET hits == {i \in DOMAIN rs : rs[i].token = token}
    IN  IF hits = {} THEN rs ELSE [rs EXCEPT ![Min(hits)].used = TRUE]

\* reset_password, await by await.
\* Lines 449-463: find_one of an unused document with the token, the expiry
\* check and the digest of the new password, which ends the call when bcrypt
\* raises ValueError.
reset_find(p, token, new_password) ==
    /\ Free(p)
    /\ LET i == find_unused_reset(resets, token) IN
       IF i = 0 \/ reset_expired(resets[i], now)
       THEN Reply(p, Response("reset_password", 0, 0, token, new_password,
                              400, <<>>))
       ELSE \E rejected \in bcrypt_rejects(new_password) :
            IF rejected
            THEN Reply(p, Response("reset_password", 0, 0, token,
                                   new_password, 500, <<>>))
            ELSE
            /\ calls' = [calls EXCEPT ![p] =
                           [Idle EXCEPT !.op = "reset_password",
                                        !.pc = "update_user",
                                        !.target = resets[i].user_id,
                                        !.token = token,
                                        !.password = new_password]]
            /\ UNCHANGED last
    /\ UNCHANGED <<users, tests, tokens,
                   societies, requests, resets, attempts, now, year, issued>>

\* Lines 464-467: update_one on the account, with the digest of line 463.
reset_update_user(p) ==
    /\ calls[p].op = "reset_password" /\ calls[p].pc = "update_user"
    /\ users' = SetPassword(users, calls[p].target, calls[p].password)
    /\ calls' = [calls EXCEPT ![p].pc = "mark_used"]
    /\ UNCHANGED <<tests, tokens, last,
                   societies, requests, resets, attempts, now, year, issued>>

\* Lines 470-475: update_one on the reset document and the response.
reset_mark_used(p) ==
    /\ calls[p].op = "reset_password" /\ calls[p].pc = "mark_used"
    /\ resets' = MarkUsed(resets, calls[p].token)
    /\ Reply(p, Response("reset_password", 0, calls[p].target,
                         calls[p].token, calls[p].password, 200, <<>>))
    /\ UNCHANGED <<users, tests, tokens,
                   societies, requests, attempts, now, year, issued>>

ResetEmails == {"ath@x.it"}
ResetTokens == 1..(MaxResetDocs + 1)  \* the last is no document's token
NewPasswords == {"pw1", "pw2", "long72a"}

\* A login after a reset: the password of the seed accounts, and a long
\* password other than the one a reset stores.
ResetLoginPasswords == {"pw0", "long72b"}

NextReset ==
    \/ \E p \in RecoverySlots, e \in ResetEmails :
          ResetsBelow(MaxResetDocs) /\ forgot_limit(p, e)
    \/ \E p \in Procs, ok \in BOOLEAN : forgot_find(p, ok)
    \/ \E p \in Procs : forgot_insert(p)
    \/ \E p \in Procs, ok \in BOOLEAN : forgot_send(p, ok)
    \/ \E p \in RecoverySlots, t \in ResetTokens, w \in NewPasswords :
          reset_find(p, t, w)
    \/ \E p \in Procs : reset_update_user(p)
    \/ \E p \in Procs : reset_mark_used(p)
    \/ \E e \in ResetEmails, w \in ResetLoginPasswords : login(e, w)
    \/ Tick

SpecReset == InitRecovery /\ [][NextReset]_vars

\* The token sweep among password resets, over the reset documents of earlier
\* runs.
SweepTokens == 1..4               \* the tokens of SeedResets and one of none
SweepPasswords == {"pw1"}

NextSweep ==
    \/ \E p \in Procs, c \in AdminCallers : cleanup_expired_tokens_now(p, c)
    \/ \E p \in Procs : cleanup_expired_tokens_delete(p)
    \/ \E p \in RecoverySlots, t \in SweepTokens, w \in SweepPasswords :
          reset_find(p, t, w)
    \/ \E p \in Procs : reset_update_user(p)
    \/ \E p \in Procs : reset_mark_used(p)
    \/ Tick

SpecSweep == InitAdmin /\ [][NextSweep]_vars

\* ================================================== society-change workflow
FindRequest(rs, id) == IF id \in DOMAIN rs THEN rs[id] ELSE NoRequest

\* find_one({"id": society_id}) on db.societies: is there such a document.
SocietyExists(socs, society_id) ==
    \E i \in DOMAIN socs : socs[i].id = society_id

SocietyName(socs, society_id) ==
    LET i == CHOOSE j \in DOMAIN socs : socs[j].id = society_id
    IN  socs[i].name

\* Faulty variant of old_society_id: the old society is never recorded.
old_society_id_none(athlete) == None

\* Line 713.
old_society_id(athlete) ==
    IF athlete.society_ids # <<>> THEN athlete.society_ids[1] ELSE None

\* Lines 709-718; athlete is the document read at line 698.
request_doc(athlete, socs, athlete_id, new_society_id) ==
    [athlete_id |-> athlete_id,
     old_society_id |-> old_society_id(athlete),
     new_society_id |-> new_society_id,
     new_society_name |-> SocietyName(socs, new_society_id),
     status |-> PENDING]

\* Lines 694-700: the caller check and find_one of the athlete (line 698).
request_society_change_find_athlete(p, caller, athlete_id, new_society_id) ==
    /\ Free(p)
    /\ caller \in tokens
    /\ Len(requests) + InFlight("request_society_change") < MaxRequests
    /\ LET athlete == FindById(users, athlete_id) IN
       IF caller # athlete_id
       THEN Reply(p, Response("request_society_change", caller, athlete_id,
                              0, new_society_id, 403, <<>>))
       ELSE IF ~Exists(users, athlete_id) \/ athlete.role # ATHLETE
       THEN Reply(p, Response("request_society_change", caller, athlete_id,
                              0, new_society_id, 404, <<>>))
       ELSE /\ calls' = [calls EXCEPT ![p] =
                   [Idle EXCEPT !.op = "request_society_change",
                                !.pc = "society",
                                !.caller = caller,
                                !.target = athlete_id,
                                !.society = new_society_id,
                                !.doc = athlete]]
            /\ UNCHANGED last
    /\ UNCHANGED <<users, tests, tokens>>
    /\ UNCHANGED other_stores

\* Lines 703-718: find_one of the society (line 703) and the request
\* document, built from the athlete as read at line 698.
request_society_change_find_society(p) ==
    /\ calls[p].op = "request_society_change"
    /\ calls[p].pc = "society"
    /\ LET c == calls[p] IN
       IF ~SocietyExists(societies, c.society)
       THEN Reply(p, Response("request_society_change", c.caller, c.target,
                              0, c.society, 404, <<>>))
       ELSE /\ calls' = [calls EXCEPT
                   ![p].pc = "insert",
                   ![p].request = request_doc(c.doc, societies, c.target,
                                              c.society)]
            /\ UNCHANGED last
    /\ UNCHANGED <<users, tests, tokens>>
    /\ UNCHANGED other_stores

\* Lines 720-722: insert_one and the response.
request_society_change_insert(p) ==
    /\ calls[p].op = "request_society_change"
    /\ calls[p].pc = "insert"
    /\ LET c == calls[p] IN
       /\ requests' = Append(requests, c.request)
       /\ Reply(p, Response("request_society_change", c.caller, c.target,
                            Len(requests) + 1, c.society, 200, <<>>))
    /\ UNCHANGED <<users, tests, tokens,
                   societies, resets, attempts, now, year, issued>>

\* Faulty variant of society_change_conflict: no status check.
society_change_conflict_never(request) == FALSE

\* Line 750.
society_change_conflict(request) == request.status # PENDING

\* Faulty variant of society_change_permitted: any coach may approve.
society_change_permitted_any_coach(role, user, request) ==
    role \in {COACH, SUPER_ADMIN}

\* Lines 754-759: a coach of the requested society, or a super_admin.
society_change_permitted(role, user, request) ==
    IF role = COACH
    THEN request.new_society_id \in ToSet(user.society_ids)
    ELSE role = SUPER_ADMIN

\* Line 764: the membership written on approval ($set replaces the list).
approved_society_ids(athlete, request) == <<request.new_society_id>>

\* Lines 762-765: update_one on db.users; no document matches an id that
\* no account has.
SetSocieties(us, request) ==
    IF Exists(us, request.athlete_id)
    THEN [us EXCEPT ![request.athlete_id].society_ids =
            approved_society_ids(us[request.athlete_id], request)]
    ELSE us

\* --------------------------------- approve_society_change, await by await
\* Lines 746-759 up to the first await after find_one of the request: the
\* status check, and the role check of a caller who is not a coach.
society_approve_find(p, caller, request_id) ==
    /\ Free(p)
    /\ caller \in tokens
    /\ LET request == FindRequest(requests, request_id) IN
       IF request_id \notin DOMAIN requests
       THEN Reply(p, Response("approve_society_change", caller, request_id,
                              0, None, 404, <<>>))
       ELSE IF society_change_conflict(request)
       THEN Reply(p, Response("approve_society_change", caller, request_id,
                              0, None, 400, <<>>))
       ELSE IF users[caller].role # COACH
               /\ ~society_change_permitted(users[caller].role,
                                            users[caller], request)
       THEN Reply(p, Response("approve_society_change", caller, request_id,
                              0, None, 403, <<>>))
       ELSE /\ calls' = [calls EXCEPT ![p] =
                           [Idle EXCEPT !.op = "approve_society_change",
                                        !.pc = IF users[caller].role = COACH
                                               THEN "check"
                                               ELSE "update_user",
                                        !.caller = caller,
                                        !.target = request_id,
                                        !.request = request]]
            /\ UNCHANGED last
    /\ UNCHANGED <<users, tests, tokens,
                   societies, requests, resets, attempts, now, year, issued>>

\* Lines 755-757: find_one of the calling coach and the membership check.
society_approve_check(p) ==
    /\ calls[p].op = "approve_society_change" /\ calls[p].pc = "check"
    /\ LET c == calls[p] IN
       IF ~society_change_permitted(COACH, FindById(users, c.caller),
                                    c.request)
       THEN Reply(p, Response("approve_society_change", c.caller, c.target,
                              0, None, 403, <<>>))
       ELSE /\ calls' = [calls EXCEPT ![p].pc = "update_user"]
            /\ UNCHANGED last
    /\ UNCHANGED <<users, tests, tokens,
                   societies, requests, resets, attempts, now, year, issued>>

\* Lines 762-765: update_one on the athlete.
society_approve_update_user(p) ==
    /\ calls[p].op = "approve_society_change"
    /\ calls[p].pc = "update_user"
    /\ users' = SetSocieties(users, calls[p].request)
    /\ calls' = [calls EXCEPT ![p].pc = "update_request"]
    /\ UNCHANGED <<tests, tokens, last,
                   societies, requests, resets, attempts, now, year, issued>>

\* Lines 768-773: update_one on the request and the response.
society_approve_update_request(p) ==
    /\ calls[p].op = "approve_society_change"
    /\ calls[p].pc = "update_request"
    /\ requests' = [requests EXCEPT ![calls[p].target].status = APPROVED]
    /\ Reply(p, Response("approve_society_change", calls[p].caller,
                         calls[p].target, 0, None, 200, <<>>))
    /\ UNCHANGED <<users, tests, tokens,
                   societies, resets, attempts, now, year, issued>>

\* Accounts and societies of earlier runs: TestSeedUsers and an athlete who
\* registered without a society.
SocietySeedUsers ==
    TestSeedUsers \o
    << [email |-> "ath2@x.it", role |-> ATHLETE, status |-> APPROVED,
        society_ids |-> <<>>, designated_coach_id |-> 0,
        birth_year |-> <<>>, category |-> None,
        password |-> hash_password("pw0"), weight |-> <<>>] >>

SeedSocieties ==
    << [id |-> "A", name |-> "Alfa", created_at |-> 0],
       [id |-> "B", name |-> "Beta", created_at |-> 0],
       [id |-> "C", name |-> "Gamma", created_at |-> 0] >>

\* <<caller, athlete_id, new_society_id>> of the request_society_change
\* calls: the athletes for themselves, an athlete for the other, a coach and
\* a super_admin; "Z" is no society's id.
RequestInputs ==
    {<<4, 4, "A">>, <<4, 4, "C">>, <<4, 4, "Z">>, <<5, 5, "B">>,
     <<4, 5, "A">>, <<2, 2, "A">>, <<1, 4, "A">>}
\* <<caller, request_id>> of the approve_society_change calls: a
\* super_admin, the coach of B and an athlete on the first request, the
\* coach on the second, and the super_admin on an id no request has.
ApprovePairs ==
    {<<1, 1>>, <<2, 1>>, <<4, 1>>, <<2, 2>>, <<1, MaxRequests + 1>>}

InitSociety ==
    /\ users = SocietySeedUsers
    /\ tests = <<>>
    /\ tokens = DOMAIN users
    /\ calls = [p \in Procs |-> Idle]
    /\ last = Response("none", 0, 0, 0, None, 0, <<>>)
    /\ societies = SeedSocieties
    /\ requests = <<>>
    /\ resets = <<>>
    /\ attempts = NoAttempts
    /\ now = 0
    /\ year = 2026
    /\ issued = 0

\* Approvals by every role of the requests of two athletes.
ApprovedRequestInputs == {<<4, 4, "A">>, <<5, 5, "B">>}

NextSociety ==
    \/ \E p \in Procs, r \in ApprovedRequestInputs :
          request_society_change_find_athlete(p, r[1], r[2], r[3])
    \/ \E p \in Procs : request_society_change_find_society(p)
    \/ \E p \in Procs : request_society_change_insert(p)
    \/ \E p \in Procs, cr \in ApprovePairs :
          society_approve_find(p, cr[1], cr[2])
    \/ \E p \in Procs : society_approve_check(p)
    \/ \E p \in Procs : society_approve_update_user(p)
    \/ \E p \in Procs : society_approve_update_request(p)

\* Requests by every role, approved by the super_admin.
NextRequests ==
    \/ \E p \in Procs, r \in RequestInputs :
          request_society_change_find_athlete(p, r[1], r[2], r[3])
    \/ \E p \in Procs : request_society_change_find_society(p)
    \/ \E p \in Procs : request_society_change_insert(p)
    \/ \E p \in Procs, r \in 1..MaxRequests : society_approve_find(p, 1, r)
    \/ \E p \in Procs : society_approve_update_user(p)
    \/ \E p \in Procs : society_approve_update_request(p)

SpecRequests == InitSociety /\ [][NextRequests]_vars

SpecSociety == InitSociety /\ [][NextSociety]_vars


\* ================================================================== claims
Terminal(st) == st \in {APPROVED, REJECTED}

Shares(a, b) == ToSet(a.society_ids) \cap ToSet(b.society_ids) # {}

\* The step just taken began an approve or reject call whose target exists
\* and answered it at once.
TransitionCall == /\ last'.op \in {"approve", "reject"}
                  /\ last'.target \in DOMAIN users
                  /\ calls' = calls

\* C1: once an account is approved or rejected its status never changes
\* again, and an approve or reject call on an account that is not pending
\* answers 400 (Conflict) and leaves every account unchanged.
C1_StatusTerminal ==
    [][ /\ \A i \in DOMAIN users :
             Terminal(users[i].status) =>
                 /\ i \in DOMAIN users'
                 /\ users'[i].status = users[i].status
        /\ (TransitionCall /\ users[last'.target].status # PENDING) =>
                 /\ last'.code = 400
                 /\ users' = users ]_vars

\* C2: with approve and reject calls interleaved, a status write takes
\* effect only on an account that is still pending, so an approved account
\* is never rejected afterwards and a rejected one never approved.
C2_AtomicTransition ==
    [][ /\ \A p \in Procs :
             (calls[p].pc = "update" /\ calls'[p] = Idle) =>
                 users[calls[p].target].status = PENDING
        /\ \A i \in DOMAIN users :
             /\ users[i].status = APPROVED => users'[i].status # REJECTED
             /\ users[i].status = REJECTED => users'[i].status # APPROVED ]_vars

\* Who may approve or reject target t, as the rule table states it.
MayTransition(c, t) ==
    \/ users[c].role = SUPER_ADMIN
    \/ /\ users[c].role = COACH
       /\ users[t].role \in {ATHLETE, COACH}
       /\ Shares(users[c], users[t])

\* The handler in slot p, an approve or reject call that found its target
\* pending, takes its permission step.
PermissionStep(p) ==
    /\ calls[p].op \in {"approve", "reject"}
    /\ calls[p].pc = "check"
    /\ calls'[p] # calls[p]

\* The handler in slot p takes its writing step.
WriteStep(p) ==
    /\ calls[p].op \in {"approve", "reject"}
    /\ calls[p].pc = "update"
    /\ calls'[p] # calls[p]

\* C3: an approve or reject call that found its target pending goes on to
\* change the target's status exactly when the caller is a super_admin, or a
\* coach acting on an athlete or coach account that shares a society with the
\* coach; every other such call answers 403 (Forbidden) and changes nothing,
\* and no status changes but by the write of a permitted call.
C3_TransitionAuthorized ==
    [][ /\ \A p \in Procs : PermissionStep(p) =>
              /\ users' = users
              /\ IF MayTransition(calls[p].caller, calls[p].target)
                 THEN calls'[p].pc = "update" /\ last' = last
                 ELSE /\ calls'[p] = Idle
                      /\ last'.op = calls[p].op
                      /\ last'.caller = calls[p].caller
                      /\ last'.target = calls[p].target
                      /\ last'.code = 403
        /\ \A i \in DOMAIN users : users'[i].status # users[i].status =>
              \E p \in Procs :
                 /\ WriteStep(p)
                 /\ calls[p].target = i
                 /\ MayTransition(calls[p].caller, i)
                 /\ last'.op = calls[p].op /\ last'.code = 200
                 /\ users'[i].status =
                      (IF calls[p].op = "approve" THEN APPROVED
                       ELSE REJECTED) ]_vars

\* A coach has just been refused on a pending super_admin account of the
\* coach's own society, after a permitted call changed another account.
C3_Witness ==
    /\ last.op = "approve"
    /\ last.code = 403
    /\ last.target \in DOMAIN users
    /\ users[last.caller].role = COACH
    /\ users[last.target].role = SUPER_ADMIN
    /\ users[last.target].status = PENDING
    /\ Shares(users[last.caller], users[last.target])
    /\ \E i \in DOMAIN users :
          /\ users[i].role = ATHLETE
          /\ users[i].status = REJECTED
          /\ Shares(users[last.caller], users[i])

\* C4: a registration that creates an account creates it approved exactly
\* when the store was empty and the e-mail is the operator's, and pending
\* otherwise, whatever role it declares.
C4_BootstrapOnly ==
    [][ Len(users') # Len(users) =>
          LET n == Len(users') IN
          /\ n = Len(users) + 1
          /\ last'.op = "register"
          /\ users'[n].status =
               (IF Len(users) = 0 /\ users'[n].email = OperatorEmail
                THEN APPROVED ELSE PENDING) ]_vars

\* C5: no two accounts share an e-mail, also when registrations for the same
\* e-mail are interleaved.
C5_UniqueEmail ==
    \A i, j \in DOMAIN users : i # j => users[i].email # users[j].email

\* The accounts a caller may see through the listing, as the table states it.
VisibleAccounts(c) ==
    IF users[c].role = SUPER_ADMIN THEN DOMAIN users
    ELSE IF users[c].role = COACH
    THEN {i \in DOMAIN users : Shares(users[c], users[i])}
    ELSE {}

\* C6: list-accounts returns, each once, all accounts to a super_admin, to a
\* coach exactly the accounts whose society set intersects the coach's, and
\* none to an athlete; a status filter, when given and not empty, keeps of
\* these the accounts in that status.
C6_ListAccounts ==
    last.op = "get_users" =>
        /\ ToSet(last.out) =
             {i \in VisibleAccounts(last.caller) :
                 ~TruthyStr(last.arg) \/ users[i].status = last.arg}
        /\ Len(last.out) = Cardinality(ToSet(last.out))

\* A coach of society A has just listed the accounts without filter: another
\* account of A is in the list and an account of D is not.
C6_Witness ==
    /\ last.op = "get_users" /\ last.arg = None
    /\ users[last.caller].role = COACH
    /\ users[last.caller].society_ids = <<"A">>
    /\ \E i \in ToSet(last.out) \ {last.caller} : users[i].society_ids = <<"A">>
    /\ \E j \in DOMAIN users \ ToSet(last.out) : users[j].society_ids = <<"D">>

\* The tests a coach may see, as the table states it.
CoachVisibleTests(c) ==
    {t \in DOMAIN tests :
        LET s == tests[t].athlete_id IN
        \/ Shares(users[c], users[s])
        \/ s = c
        \/ users[s].designated_coach_id = c}

\* C7: list-tests called by a coach returns exactly the tests of subjects
\* sharing a society with the coach, the coach's own tests and the tests of
\* accounts that designated the coach, restricted to the subject filter when
\* one is given.
C7_CoachTests ==
    (last.op = "get_tests" /\ last.code = 200
        /\ users[last.caller].role = COACH) =>
        ToSet(last.out) =
            {t \in CoachVisibleTests(last.caller) :
                ~TruthyId(last.target) \/ tests[t].athlete_id = last.target}

\* C8: every test list-tests returns to an athlete has the athlete as its
\* subject, whatever the subject filter.
C8_AthleteOwnTests ==
    (last.op = "get_tests" /\ last.code = 200
        /\ users[last.caller].role = ATHLETE) =>
        \A t \in ToSet(last.out) : tests[t].athlete_id = last.caller

\* Who may create a test for a subject, as the rule states it; person is
\* the subject's document.
MayCreateTest(c, s, person) ==
    \/ c = s
    \/ users[c].role = SUPER_ADMIN
    \/ users[c].role = COACH /\ Shares(users[c], person)

\* C9: a create-test call for an existing subject, judged on the subject's
\* document as the call read it, succeeds (stores a test of that subject and
\* answers 200) exactly when the caller is the subject, a super_admin, or a
\* coach sharing a society with the subject; every other call answers 403
\* (Forbidden) and stores nothing, and no test is stored but by a call that
\* succeeds.
C9_CreateTestAuthorized ==
    [][ /\ ( /\ last'.op = "create_test" /\ calls' = calls
             /\ last'.target \in DOMAIN users ) =>
              /\ ~MayCreateTest(last'.caller, last'.target,
                                users[last'.target])
              /\ last'.code = 403
              /\ tests' = tests
        /\ \A p \in Procs :
              (calls[p] = Idle /\ calls'[p].op = "create_test") =>
                 LET c == calls'[p].caller
                     x == calls'[p].target
                 IN /\ x \in DOMAIN users
                    /\ calls'[p].doc = users[x]
                    /\ tests' = tests
                    /\ IF c = x \/ users[c].role = SUPER_ADMIN
                       THEN calls'[p].pc = "insert"
                       ELSE users[c].role = COACH /\ calls'[p].pc = "user"
        /\ \A p \in Procs :
              ( /\ calls[p].op = "create_test" /\ calls[p].pc = "user"
                /\ calls'[p] # calls[p] ) =>
                 /\ tests' = tests
                 /\ IF MayCreateTest(calls[p].caller, calls[p].target,
                                     calls[p].doc)
                    THEN calls'[p].pc = "insert" /\ last' = last
                    ELSE /\ calls'[p] = Idle
                         /\ last'.op = "create_test"
                         /\ last'.code = 403
        /\ tests' # tests =>
              \E p \in Procs :
                 /\ calls[p].op = "create_test" /\ calls[p].pc = "insert"
                 /\ calls'[p] = Idle
                 /\ MayCreateTest(calls[p].caller, calls[p].target,
                                  calls[p].doc)
                 /\ last'.op = "create_test" /\ last'.code = 200
                 /\ Len(tests') = Len(tests) + 1
                 /\ tests'[Len(tests')].athlete_id = calls[p].target
                 /\ SubSeq(tests', 1, Len(tests)) = tests ]_vars

\* Who may fetch the statistics of account x, as the rule states it;
\* target_user is the document of x.
MayViewStats(c, x, target_user) ==
    \/ c = x
    \/ users[c].role = SUPER_ADMIN
    \/ /\ users[c].role = COACH
       /\ \/ Shares(users[c], target_user)
          \/ target_user.designated_coach_id = c

\* C10: a call fetching the statistics of an existing account x, judged on
\* the document of x as the call read it, is answered with the statistics
\* exactly when the caller is x, a super_admin, or a coach who shares a
\* society with x or is x's designated coach, and with 403 otherwise; the
\* grant is one-directional: a coach who designated x gets no access to the
\* statistics of x from it.
C10_StatsAuthorized ==
    [][ /\ ( /\ last'.op = "get_athlete_stats" /\ calls' = calls
             /\ last'.target \in DOMAIN users ) =>
              /\ ~MayViewStats(last'.caller, last'.target,
                               users[last'.target])
              /\ last'.code = 403
        /\ \A p \in Procs :
              (calls[p] = Idle /\ calls'[p].op = "get_athlete_stats") =>
                 LET c == calls'[p].caller
                     x == calls'[p].target
                 IN /\ x \in DOMAIN users
                    /\ calls'[p].doc = users[x]
                    /\ IF c = x \/ users[c].role = SUPER_ADMIN
                       THEN calls'[p].pc = "tests"
                       ELSE users[c].role = COACH /\ calls'[p].pc = "user"
        /\ \A p \in Procs :
              ( /\ calls[p].op = "get_athlete_stats"
                /\ calls'[p] # calls[p] ) =>
                 LET c == calls[p].caller
                     x == calls[p].target
                     granted == MayViewStats(c, x, calls[p].doc)
                 IN IF calls[p].pc = "tests"
                    THEN /\ calls'[p] = Idle
                         /\ last'.op = "get_athlete_stats"
                         /\ last'.caller = c /\ last'.target = x
                         /\ last'.code = 200
                    ELSE /\ IF granted
                            THEN calls'[p].pc = "tests" /\ last' = last
                            ELSE /\ calls'[p] = Idle
                                 /\ last'.op = "get_athlete_stats"
                                 /\ last'.code = 403
                         /\ ( /\ users[c].designated_coach_id = x
                              /\ ~Shares(users[c], calls[p].doc)
                              /\ calls[p].doc.designated_coach_id # c ) =>
                                 calls'[p] = Idle /\ last'.code = 403 ]_vars

\* A coach has just fetched the statistics of an account that designated the
\* coach and shares no society with the coach.
C10_Witness ==
    /\ last.op = "get_athlete_stats" /\ last.code = 200
    /\ last.target \in DOMAIN users
    /\ users[last.caller].role = COACH
    /\ users[last.target].designated_coach_id = last.caller
    /\ ~Shares(users[last.caller], users[last.target])

\* ------------------------------------------------------------------- C11
DesignationValid ==
    \A i \in DOMAIN users :
        users[i].designated_coach_id # 0
            => /\ users[i].role \in {COACH, SUPER_ADMIN}
               /\ FindById(users, users[i].designated_coach_id).role = COACH

\* C11: an account with a designated coach is a coach or a super_admin and
\* the designated id names a coach account; a set-designated-coach call whose
\* target is an athlete, or whose coach id names no account or a non-coach,
\* fails and leaves every designated coach as it was.
C11_DesignationValid ==
    /\ []DesignationValid
    /\ [][(/\ last'.op = "set_designated_coach"
           /\ \/ FindById(users, last'.target).role = ATHLETE
              \/ /\ last'.other # 0
                 /\ FindById(users, last'.other).role # COACH)
          => (last'.code \in {400, 403, 404} /\ users' = users)]_vars

\* ------------------------------------------------------------------- C12
AdminOps == {"create_society", "set_designated_coach",
             "recalculate_all_categories", "cleanup_expired_tokens"}

\* C12: create society, set designated coach, category recompute and
\* expired-token sweep, called by anyone but a super_admin, are answered
\* Forbidden at once and leave societies, accounts and reset tokens as they
\* were; no call of these by anyone else gets past its first step.
C12_AdminForbidden ==
    [][ /\ ( /\ last'.op \in AdminOps
             /\ calls' = calls
             /\ now' = now /\ year' = year
             /\ users[last'.caller].role # SUPER_ADMIN )
            => /\ last'.code = 403
               /\ societies' = societies
               /\ users' = users
               /\ resets' = resets
        /\ \A p \in Procs :
              calls'[p].op \in AdminOps =>
                 users[calls'[p].caller].role = SUPER_ADMIN ]_vars

C12_Witness ==
    /\ last.op = "cleanup_expired_tokens"
    /\ users[last.caller].role = COACH
    /\ last.code = 403
    /\ \E i \in DOMAIN resets : reset_deletable(resets[i], now)
    /\ \E i \in users_with_birth_year(users) :
          category_out_of_date(users[i], year)
    /\ Len(societies) < MaxSocieties

\* ------------------------------------------------------------------- C13
\* The handler in slot p, an approve_society_change call, takes a step.
ApproveChangeStep(p) ==
    /\ calls[p].op = "approve_society_change"
    /\ calls'[p] # calls[p]

\* C13: when an approval of a society-change request answers success, the
\* athlete's societies are exactly the requested one, whatever they were
\* before, and the request is approved.
C13_ApprovalEffect ==
    [][\A p \in Procs :
          ( /\ ApproveChangeStep(p)
            /\ calls'[p] = Idle
            /\ last'.op = "approve_society_change"
            /\ last'.code = 200 ) =>
             LET request == calls[p].request IN
             /\ ToSet(users'[request.athlete_id].society_ids)
                   = {request.new_society_id}
             /\ requests'[calls[p].target].status = APPROVED]_vars

\* ------------------------------------------------------------------- C14
\* C14: approving a request that is already approved answers with the
\* conflict error and changes neither the requests nor any account, also
\* when the athlete's membership has changed since through another request;
\* only a call that finds its request pending goes on.
C14_ReapproveConflict ==
    [][ /\ ( /\ last'.op = "approve_society_change"
             /\ calls' = calls
             /\ last'.target \in DOMAIN requests
             /\ requests[last'.target].status = APPROVED )
            => /\ last'.code = 400
               /\ requests' = requests
               /\ users' = users
        /\ \A p \in Procs :
              (calls[p] = Idle /\ calls'[p].op = "approve_society_change")
                 => /\ calls'[p].target \in DOMAIN requests
                    /\ requests[calls'[p].target].status = PENDING ]_vars

C14_Witness ==
    /\ last.op = "approve_society_change"
    /\ last.code = 400
    /\ requests[last.target].status = APPROVED
    /\ users[last.caller].role = SUPER_ADMIN
    /\ users[requests[last.target].athlete_id].society_ids
         # <<requests[last.target].new_society_id>>

\* ------------------------------------------------------------------- C15
\* C15: the two effects of an approval are one step: whenever an account's
\* societies are replaced, a pending request becomes approved in the same
\* step, and an approval that reports success found its request pending
\* (so two approvals of one request cannot both succeed).
C15_ApprovalAtomic ==
    /\ [][users' # users
            => \E r \in DOMAIN requests :
                 /\ requests[r].status = PENDING
                 /\ requests'[r].status = APPROVED]_vars
    /\ [][(/\ last'.op = "approve_society_change"
           /\ last'.code = 200
           /\ calls' # calls)
          => requests[last'.target].status = PENDING]_vars

\* ------------------------------------------------------------------- C16
MayApproveChange(caller, request) ==
    \/ users[caller].role = SUPER_ADMIN
    \/ /\ users[caller].role = COACH
       /\ request.new_society_id \in ToSet(users[caller].society_ids)

\* C16: a call approving a pending request goes on to approve it exactly
\* for a super_admin or a coach whose societies contain the requested
\* society; for anyone else the answer is Forbidden and neither requests nor
\* accounts change; and nothing is written but by a permitted call.
C16_ApprovalAuthorized ==
    [][ /\ ( /\ last'.op = "approve_society_change"
             /\ calls' = calls
             /\ last'.target \in DOMAIN requests
             /\ requests[last'.target].status = PENDING )
            => /\ ~MayApproveChange(last'.caller, requests[last'.target])
               /\ last'.code = 403
               /\ requests' = requests
               /\ users' = users
        /\ \A p \in Procs :
              (calls[p] = Idle /\ calls'[p].op = "approve_society_change")
                 => /\ requests' = requests /\ users' = users
                    /\ calls'[p].request = requests[calls'[p].target]
                    /\ IF users[calls'[p].caller].role = SUPER_ADMIN
                       THEN calls'[p].pc = "update_user"
                       ELSE /\ users[calls'[p].caller].role = COACH
                            /\ calls'[p].pc = "check"
        /\ \A p \in Procs :
              (ApproveChangeStep(p) /\ calls[p].pc = "check") =>
                 /\ requests' = requests /\ users' = users
                 /\ IF MayApproveChange(calls[p].caller, calls[p].request)
                    THEN calls'[p].pc = "update_user" /\ last' = last
                    ELSE /\ calls'[p] = Idle
                         /\ last'.op = "approve_society_change"
                         /\ last'.code = 403
        /\ (users' # users \/ \E r \in DOMAIN requests :
                                  requests'[r] # requests[r]) =>
              \E p \in Procs :
                 /\ ApproveChangeStep(p)
                 /\ calls[p].pc \in {"update_user", "update_request"}
                 /\ MayApproveChange(calls[p].caller, calls[p].request) ]_vars

C16_Witness ==
    /\ last.op = "approve_society_change"
    /\ last.code = 403
    /\ users[last.caller].role = COACH
    /\ requests[last.target].status = PENDING
    /\ requests[last.target].old_society_id
         \in ToSet(users[last.caller].society_ids)
    /\ requests[last.target].new_society_id
         \notin ToSet(users[last.caller].society_ids)

\* ------------------------------------------------------------------- C17
\* C17: no athlete has two pending society-change requests.
C17_OnePendingRequest ==
    \A i, j \in DOMAIN requests :
        (/\ requests[i].athlete_id = requests[j].athlete_id
         /\ requests[i].status = PENDING
         /\ requests[j].status = PENDING) => i = j

\* ------------------------------------------------------------------- C18
MayRequestChange(caller, athlete_id, new_society_id) ==
    /\ caller = athlete_id
    /\ FindById(users, athlete_id).role = ATHLETE
    /\ SocietyExists(societies, new_society_id)

FirstOrNone(seq) == IF seq = <<>> THEN None ELSE Head(seq)

\* C18: a society-change request is stored only when the caller is the named
\* account, that account is an athlete and the requested society exists; it
\* is stored pending with the first of the societies the call read for the
\* athlete (or none) as old society; no account's societies change except
\* by the write of an approval of a request of that account.
C18_RequestCreation ==
    /\ [][ /\ (last'.op = "request_society_change" /\ calls' = calls) =>
                 /\ ~MayRequestChange(last'.caller, last'.target, last'.arg)
                 /\ last'.code \in {403, 404}
                 /\ requests' = requests
                 /\ users' = users
           /\ \A p \in Procs :
                 (calls[p] = Idle /\ calls'[p].op = "request_society_change")
                    => /\ calls'[p].caller = calls'[p].target
                       /\ users[calls'[p].target].role = ATHLETE
                       /\ calls'[p].doc = users[calls'[p].target]
                       /\ requests' = requests /\ users' = users
           /\ \A p \in Procs :
                 ( /\ calls[p].op = "request_society_change"
                   /\ calls[p].pc = "society"
                   /\ calls'[p] # calls[p] ) =>
                    /\ requests' = requests /\ users' = users
                    /\ IF SocietyExists(societies, calls[p].society)
                       THEN calls'[p].pc = "insert" /\ last' = last
                       ELSE /\ calls'[p] = Idle
                            /\ last'.op = "request_society_change"
                            /\ last'.code = 404
           /\ Len(requests') # Len(requests) =>
                 \E p \in Procs :
                    /\ calls[p].op = "request_society_change"
                    /\ calls[p].pc = "insert"
                    /\ calls'[p] = Idle
                    /\ MayRequestChange(calls[p].caller, calls[p].target,
                                        calls[p].society)
                    /\ last'.op = "request_society_change"
                    /\ last'.code = 200
                    /\ users' = users
                    /\ Len(requests') = Len(requests) + 1
                    /\ SubSeq(requests', 1, Len(requests)) = requests
                    /\ LET r == requests'[Len(requests')] IN
                       /\ r.athlete_id = calls[p].target
                       /\ r.new_society_id = calls[p].society
                       /\ r.status = PENDING
                       /\ r.old_society_id
                            = FirstOrNone(calls[p].doc.society_ids) ]_vars
    /\ [][\A i \in DOMAIN users :
            users'[i].society_ids # users[i].society_ids
                => \E p \in Procs :
                      /\ ApproveChangeStep(p)
                      /\ calls[p].pc = "update_user"
                      /\ calls[p].request.athlete_id = i]_vars

C18_Witness ==
    /\ last.op = "request_society_change"
    /\ last.code = 200
    /\ last.target = 4
    /\ requests[last.other].status = PENDING
    /\ requests[last.other].old_society_id = "B"
    /\ users[4].society_ids = <<"B">>

\* ------------------------------------------------------------------- C19
\* The recorded attempts of an e-mail that are less than an hour old.
RecentAttempts(email) ==
    IF email \in DOMAIN attempts
    THEN SelectSeq(attempts[email], LAMBDA ts : now - ts < 3600)
    ELSE <<>>

\* The e-mails of the triggers whose limiter runs in this step: a handler
\* that starts and goes on, or one that is turned away at once.
TriggerEmails ==
    {calls'[p].email :
        p \in {q \in Procs : /\ calls[q] = Idle
                              /\ calls'[q].op = "forgot_password"}}
    \cup (IF /\ calls' = calls /\ now' = now
              /\ last'.op = "forgot_password" /\ last'.code = 429
           THEN {last'.arg} ELSE {})

\* The handler in slot p, a forgot_password call past its limiter, is
\* answered in this step.
RecoveryAnswered(p) ==
    /\ calls[p].op = "forgot_password"
    /\ calls'[p] = Idle

\* C19: a recovery trigger is accepted while fewer than three accepted
\* triggers for the e-mail lie within the last hour and is RateLimited
\* otherwise; attempts one hour old or older no longer count.  An accepted
\* trigger is answered 200 in the end, a limited one 429 at once.
C19_RateLimit ==
    [][ /\ \A e \in TriggerEmails :
              IF Len(RecentAttempts(e)) < 3
              THEN calls' # calls /\ last' = last
              ELSE calls' = calls /\ last'.code = 429 /\ last'.arg = e
        /\ \A p \in Procs : RecoveryAnswered(p) => last'.code = 200 ]_vars

\* A trigger was accepted at 3600 for the account whose trigger of instant
\* 0 no longer counts: the document of each is stored.
C19_Witness ==
    /\ last.op = "forgot_password"
    /\ last.code = 200
    /\ last.arg = "ath@x.it"
    /\ now = 3600
    /\ attempts[last.arg] = <<3600>>
    /\ Len(resets) = 2
    /\ resets[1].expiry = 3600
    /\ resets[2].expiry = 7200

\* ------------------------------------------------------------------- C20
\* C20 as stated: every recovery trigger appends its timestamp to the
\* attempts of the e-mail, whatever its outcome.
C20_AlwaysRecorded ==
    [][\A e \in TriggerEmails :
          attempts'[e] = Append(RecentAttempts(e), now)]_vars

\* C20, amended: a recovery trigger appends its timestamp exactly when it is
\* accepted; a RateLimited trigger leaves only the pruned attempts, so it
\* does not count against later triggers.
C20_RecordedWhenAccepted ==
    [][\A e \in TriggerEmails :
          attempts'[e] =
            IF calls' = calls /\ last'.code = 429
            THEN RecentAttempts(e)
            ELSE Append(RecentAttempts(e), now)]_vars

C20_Witness ==
    /\ last.op = "forgot_password"
    /\ last.code = 429
    /\ Len(attempts[last.arg]) = 3
    /\ \A i \in DOMAIN attempts[last.arg] : attempts[last.arg][i] < now

\* ------------------------------------------------------------------- C21
RecentOf(list, t) == SelectSeq(list, LAMBDA ts : t - ts < 3600)

IsPrefix(a, b) == Len(a) <= Len(b) /\ SubSeq(b, 1, Len(a)) = a

\* C21: for every e-mail at most three accepted triggers lie within any
\* hour, also when triggers are handled concurrently: never more than three
\* recorded attempts are less than an hour old, an attempt stays recorded
\* while it is less than an hour old, a trigger is accepted exactly when
\* fewer than three such attempts are recorded for its own e-mail, and it
\* leaves the attempts of every other e-mail as they were.
C21_LimitPerEmail ==
    /\ [](\A e \in DOMAIN attempts : Len(RecentAttempts(e)) <= 3)
    /\ [][now' = now =>
            \A e \in DOMAIN attempts :
               /\ e \in DOMAIN attempts'
               /\ IsPrefix(RecentAttempts(e), RecentOf(attempts'[e], now))
               /\ e \notin TriggerEmails => attempts'[e] = attempts[e]]_vars
    /\ [][\A e \in TriggerEmails :
            /\ e \in DOMAIN attempts'
            /\ IF Len(RecentAttempts(e)) < 3
               THEN /\ attempts'[e] = Append(RecentAttempts(e), now)
                    /\ calls' # calls
               ELSE /\ attempts'[e] = RecentAttempts(e)
                    /\ calls' = calls]_vars

C21_Witness ==
    /\ \A p \in Procs : /\ calls[p].op = "forgot_password"
                         /\ calls[p].email = "ghost@x.it"
    /\ "ghost@x.it" \in DOMAIN attempts
    /\ Len(RecentAttempts("ghost@x.it")) = 3
    /\ "ath@x.it" \in DOMAIN attempts
    /\ attempts["ath@x.it"] # <<>>

\* ------------------------------------------------------------------- C22
\* Whether a trigger is accepted and what it records, from the e-mail's
\* recorded attempts and the clock alone.
TriggerAccepted(email) == Len(RecentAttempts(email)) < 3

TriggerRecord(email) ==
    IF TriggerAccepted(email)
    THEN Append(RecentAttempts(email), now)
    ELSE RecentAttempts(email)

\* C22: the responses to a sequence of recovery triggers for an e-mail are
\* determined by the instants of those triggers alone; neither the existence
\* of an account with the e-mail nor the outcome of the mail dispatch enters.
\* A trigger is turned away with 429 exactly when three attempts recorded for
\* its e-mail are less than an hour old, and every other trigger is answered
\* 200 with nothing but its e-mail; the attempts recorded for an e-mail
\* change at its own triggers only, and then to a list fixed by the earlier
\* list and the clock.
C22_ResponseIndependent ==
    [][ /\ \A e \in TriggerEmails :
              /\ attempts'[e] = TriggerRecord(e)
              /\ IF TriggerAccepted(e)
                 THEN calls' # calls /\ last' = last
                 ELSE last' = Response("forgot_password", 0, 0, 0, e, 429,
                                       <<>>)
        /\ \A e \in DOMAIN attempts \ TriggerEmails :
              e \in DOMAIN attempts' /\ attempts'[e] = attempts[e]
        /\ \A e \in DOMAIN attempts' \ DOMAIN attempts : e \in TriggerEmails
        /\ \A p \in Procs : RecoveryAnswered(p) =>
              last' = Response("forgot_password", 0, 0, 0, calls[p].email,
                               200, <<>>) ]_vars

\* The fourth trigger of the hour for the e-mail of an account was turned
\* away after three were accepted and stored a document each, the e-mail of
\* no account having the same attempts recorded.
C22_Witness ==
    /\ last.op = "forgot_password"
    /\ last.code = 429
    /\ last.arg = "ath@x.it"
    /\ FindByEmail(users, last.arg) # 0
    /\ Len(attempts[last.arg]) = 3
    /\ "ghost@x.it" \in DOMAIN attempts
    /\ attempts["ghost@x.it"] = attempts[last.arg]
    /\ FindByEmail(users, "ghost@x.it") = 0
    /\ Len(resets) = 3

\* ------------------------------------------------------------------- C23
\* The handler in slot p, a reset_password call, takes a step.
ResetStep(p) ==
    /\ calls[p].op = "reset_password"
    /\ calls'[p] # calls[p]

\* The reset documents a token can redeem now: unused and not past expiry.
Redeemable(token) ==
    {i \in DOMAIN resets : /\ resets[i].token = token
                           /\ ~resets[i].used
                           /\ now <= resets[i].expiry}

\* C23: a reset call changes a password only when it finds its token
\* stored, unused and not past its expiry, which is one hour after the
\* token's creation; then exactly the owner's password becomes the new one
\* (its digest, of the first 72 bytes) and the token is marked used; with
\* any other token the call fails with 400 and leaves every password and
\* every token as it was.  A call with such a token that changes nothing is
\* one whose new password, longer than 72 bytes, bcrypt rejected.
C23_ResetGuarded ==
    /\ [][ /\ ( /\ last'.op = "reset_password" /\ calls' = calls
                 /\ now' = now ) =>
                 /\ users' = users
                 /\ resets' = resets
                 /\ IF Redeemable(last'.other) = {}
                    THEN last'.code = 400
                    ELSE last'.code = 500 /\ last'.arg \in LongPasswords
           /\ \A p \in Procs :
                 (calls[p] = Idle /\ calls'[p].op = "reset_password") =>
                    /\ \E i \in Redeemable(calls'[p].token) :
                          calls'[p].target = resets[i].user_id
                    /\ users' = users /\ resets' = resets
           /\ \A p \in Procs : ResetStep(p) =>
                 IF calls[p].pc = "update_user"
                 THEN /\ users' = [users EXCEPT ![calls[p].target].password
                                       = <<"bcrypt",
                                           First72(calls[p].password)>>]
                      /\ resets' = resets
                      /\ last' = last
                 ELSE /\ users' = users
                      /\ \E i \in DOMAIN resets :
                            /\ resets[i].token = calls[p].token
                            /\ resets' = [resets EXCEPT ![i].used = TRUE]
                      /\ calls'[p] = Idle
                      /\ last'.op = "reset_password"
                      /\ last'.code = 200 ]_vars
    /\ [][ /\ \A p \in Procs :
                 ( /\ calls[p].op = "forgot_password"
                   /\ calls'[p].op = "forgot_password"
                   /\ calls'[p].pc = "insert" /\ calls[p].pc = "find" ) =>
                    calls'[p].expiry = now + 3600
           /\ Len(resets') > Len(resets) =>
                 \E p \in Procs :
                    /\ calls[p].op = "forgot_password"
                    /\ calls[p].pc = "insert"
                    /\ resets'[Len(resets')].expiry = calls[p].expiry
                    /\ ~resets'[Len(resets')].used ]_vars
    /\ [][users' # users =>
            \E p \in Procs : ResetStep(p) /\ calls[p].pc = "update_user"]_vars

\* A token has changed its owner's password and, presented again, is
\* refused.
C23_Witness ==
    /\ last.op = "reset_password"
    /\ last.code = 400
    /\ last.arg = "pw2"
    /\ \E i \in DOMAIN resets : /\ resets[i].token = last.other
                                 /\ resets[i].used
                                 /\ resets[i].user_id = 4
    /\ users[4].password = <<"bcrypt", "pw1">>
    /\ users[2].password = <<"bcrypt", "pw0">>

\* ------------------------------------------------------------------- C24
\* C24: a reset token is redeemed at most once: every reset call that
\* reports success finds its token unused when it marks it used, whatever
\* the interleaving of the calls presenting the token.
C24_TokenSingleUse ==
    [][\A p \in Procs :
         (/\ calls[p].op = "reset_password"
          /\ calls[p].pc = "mark_used"
          /\ calls'[p] = Idle)
         => \E i \in DOMAIN resets : /\ resets[i].token = calls[p].token
                                      /\ ~resets[i].used]_vars

\* ------------------------------------------------------------------- C25
\* C25: every stored test has a distance and a time above zero (a test with
\* either at most zero is rejected and not stored).
C25_PositiveInputs ==
    \A t \in DOMAIN tests :
        tests[t].distance.n > 0 /\ tests[t].time_seconds.n > 0

\* ------------------------------------------------------------------- C26
\* time / distance * 500, and 0 for a distance of at most zero.
SplitOf(distance, time_seconds) ==
    IF distance.n <= 0 THEN Zero
    ELSE RatMul(RatMul(time_seconds, Rat(distance.d, distance.n)),
                Rat(500, 1))

\* 2.8 / (split / 500)^3 to two decimals (either neighbour, up or not, when
\* the value lies half-way), and 0 for a split of at most zero.
WattsOf(split, up) ==
    IF split.n <= 0 THEN Zero
    ELSE Round2(RatMul(Rat(14, 5), RatCube(RatDiv(Rat(500, 1), split))), up)

\* C26: the split and the watts of every stored test are the values the
\* formulas give for the test's own stored distance and time.
C26_DerivedFromInputs ==
    \A t \in DOMAIN tests :
        /\ tests[t].split_500
             = SplitOf(tests[t].distance, tests[t].time_seconds)
        /\ tests[t].watts \in {WattsOf(tests[t].split_500, up) : up \in BOOLEAN}

C26_Witness ==
    \E t \in DOMAIN tests :
        /\ tests[t].distance = Rat(500, 1)
        /\ tests[t].time_seconds = Rat(95, 1)
        /\ tests[t].split_500 = Rat(95, 1)
        /\ tests[t].watts = Rat(40822, 100)

\* ------------------------------------------------------------------- C27
\* C27: the watts per kg of a stored test are present exactly when the
\* test's effective weight is above zero, and then are watts / weight to
\* two decimals (either neighbour when the quotient lies half-way); with a
\* missing, zero or negative weight they are absent.
C27_WattsPerKg ==
    \A t \in DOMAIN tests :
        LET w == tests[t].weight IN
        IF w # <<>> /\ w[1].n > 0
        THEN tests[t].watts_per_kg
                 \in {<<Round2(RatDiv(tests[t].watts, w[1]), up)>> :
                         up \in BOOLEAN}
        ELSE tests[t].watts_per_kg = <<>>

\* ------------------------------------------------------------------- C28
\* The table of inclusive age ranges.
Brackets ==
    { [lo |-> 0 - 1000, hi |-> 9, label |-> "NON CLASSIFICATO"],
      [lo |-> 10, hi |-> 10, label |-> "ALLIEVI A"],
      [lo |-> 11, hi |-> 11, label |-> "ALLIEVI B1"],
      [lo |-> 12, hi |-> 12, label |-> "ALLIEVI B2"],
      [lo |-> 13, hi |-> 13, label |-> "ALLIEVI C"],
      [lo |-> 14, hi |-> 14, label |-> "CADETTI"],
      [lo |-> 15, hi |-> 16, label |-> "RAGAZZI"],
      [lo |-> 17, hi |-> 18, label |-> "JUNIOR"],
      [lo |-> 19, hi |-> 22, label |-> "UNDER 23"],
      [lo |-> 23, hi |-> 26, label |-> "SENIOR"],
      [lo |-> 27, hi |-> 1000, label |-> "MASTER"] }

BracketsOf(age) == {b \in Brackets : b.lo <= age /\ age <= b.hi}

TableLabel(current_year, birth_year) ==
    LET age == current_year - birth_year
    IN  (CHOOSE b \in BracketsOf(age) : TRUE).label

\* The handler in slot p, a category recompute, takes a step.
RecomputeStep(p) ==
    /\ year' = year /\ now' = now
    /\ calls'[p] # calls[p] \/ (calls[p] = Idle /\ calls' = calls)
    /\ \/ calls[p].op = "recalculate_all_categories"
       \/ /\ calls[p] = Idle
          /\ \/ calls'[p].op = "recalculate_all_categories"
             \/ /\ calls' = calls
                /\ last'.op = "recalculate_all_categories"
                /\ last'.code = 200

\* The documents the loop of a recompute passes over in a step of slot p.
PassedOver(p) ==
    LET list == IF calls[p] = Idle THEN birth_year_docs(users)
                ELSE calls[p].list
        from == IF calls[p] = Idle THEN 1 ELSE calls[p].target + 1
        to == IF calls'[p] = Idle THEN Len(list) ELSE calls'[p].target - 1
    IN  {list[k] : k \in from..to}

\* C28: the category a recompute gives a birth year is the label of the one
\* bracket of the table that holds the age year - birth year: 10, 11, 12 and
\* 13 have a label each, 14 is CADETTI, 15-16 RAGAZZI, 17-18 JUNIOR, 19-22
\* UNDER 23, 23-26 SENIOR, 27 and above MASTER, and every age below 10,
\* negative ones included, is unclassified.  The recompute leaves alone
\* exactly the accounts that hold that label, and the category it goes on to
\* write is that label.
C28_CategoryTable ==
    [][ \A p \in Procs : RecomputeStep(p) =>
          /\ \A d \in PassedOver(p) :
                /\ Cardinality(BracketsOf(year - d.birth_year[1])) = 1
                /\ d.category = TableLabel(year, d.birth_year[1])
          /\ calls'[p] # Idle =>
                LET d == calls'[p].list[calls'[p].target] IN
                /\ Cardinality(BracketsOf(year - d.birth_year[1])) = 1
                /\ d.category # TableLabel(year, d.birth_year[1])
                /\ calls'[p].category = TableLabel(year, d.birth_year[1])
          /\ calls[p] # Idle =>
                users' = [users EXCEPT
                            ![calls[p].list[calls[p].target].id].category =
                                calls[p].category]
          /\ calls[p] = Idle => users' = users ]_vars

C28_Witness ==
    /\ last.op = "recalculate_all_categories"
    /\ last.code = 200
    /\ last.out[1] > 0
    /\ year - users[4].birth_year[1] < 0
    /\ users[4].category = "NON CLASSIFICATO"
    /\ users[3].category = "MASTER"
    /\ year - users[3].birth_year[1] = 27

\* ------------------------------------------------------------------- C29
Current(us, y) ==
    \A i \in DOMAIN us :
        us[i].birth_year # <<>>
        => us[i].category
             = calculate_category_from_birth_year(y, us[i].birth_year[1])

\* C29: a category recompute counts the accounts whose stored category it
\* changed (every write it counts changes the category of its account) and
\* leaves, when it answers, every account with a birth year with the
\* category of the table; run where that already holds (as after a run in
\* the same year) it reports zero and changes no account.
C29_RecomputeIdempotent ==
    [][ \A p \in Procs : RecomputeStep(p) =>
          /\ calls[p] # Idle =>
                LET i == calls[p].list[calls[p].target].id IN
                users'[i].category # users[i].category
          /\ calls'[p] = Idle => Current(users', year)
          /\ (calls[p] = Idle /\ Current(users, year)) =>
                /\ calls' = calls
                /\ last'.out[1] = 0
                /\ users' = users ]_vars

\* ------------------------------------------------------------------- C30
\* The tests of a subject, and their groups of equal distance.
HistoryOf(athlete_id) == {t \in DOMAIN tests : tests[t].athlete_id = athlete_id}

GroupsOf(athlete_id) ==
    {{t \in HistoryOf(athlete_id) : tests[t].distance = tests[u].distance} :
        u \in HistoryOf(athlete_id)}

Reported(t) == [time_seconds |-> tests[t].time_seconds,
                split_500 |-> tests[t].split_500,
                watts |-> tests[t].watts,
                date |-> tests[t].date]

\* The first test of the group that no test of the group beats.
FirstFastest(G) ==
    Min({t \in G : \A u \in G :
            tests[t].time_seconds.n * tests[u].time_seconds.d
                <= tests[u].time_seconds.n * tests[t].time_seconds.d})

FirstLatest(G) ==
    Min({t \in G : \A u \in G : StrLE(tests[u].date, tests[t].date)})

\* C30: the statistics of a subject hold, for every group of tests of one
\* distance, the first test of least time as best, the first test of
\* greatest date string as latest, and the number of tests of the group.
C30_StatsPerGroup ==
    (last.op = "get_athlete_stats" /\ last.code = 200)
    => \A G \in GroupsOf(last.target) :
         LET k == IntPart(tests[Min(G)].distance) IN
         /\ k \in DOMAIN last.stats
         /\ last.stats[k].best = Reported(FirstFastest(G))
         /\ last.stats[k].latest = Reported(FirstLatest(G))
         /\ last.stats[k].count = Cardinality(G)


\* ------------------------------------------------------------------- C31
\* The sum of the counts of the reported buckets whose keys are in K.
RECURSIVE CountSum(_, _)
CountSum(stats, K) ==
    IF K = {} THEN 0
    ELSE LET k == CHOOSE x \in K : TRUE
         IN  stats[k].count + CountSum(stats, K \ {k})

\* C31: the statistics of a subject hold one bucket for each distinct
\* distance of the subject's tests, and the counts of the buckets add up to
\* the number of the subject's tests.
C31_BucketPerDistance ==
    (last.op = "get_athlete_stats" /\ last.code = 200)
    => /\ Cardinality(DOMAIN last.stats)
             = Cardinality(GroupsOf(last.target))
       /\ CountSum(last.stats, DOMAIN last.stats) = Len(last.out)


\* ------------------------------------------------------------------- C32
\* C32: the list of pending accounts returned to a caller holds exactly the
\* accounts on which an approve call by that caller passes, at that moment,
\* the pending check and the authorization check.
C32_PendingListApprovable ==
    last.op = "get_pending_users" =>
        ToSet(last.out) =
            {u \in DOMAIN users :
                /\ ~approve_conflict(users[u])
                /\ approve_permitted(users[last.caller].role,
                                     FindById(users, last.caller), users[u])}

\* A coach was shown a pending account and not another pending one, a
\* super_admin of a society of the coach.
C32_Witness ==
    /\ last.op = "get_pending_users"
    /\ users[last.caller].role = COACH
    /\ last.out # <<>>
    /\ \E u \in DOMAIN users :
          /\ users[u].status = PENDING
          /\ users[u].role = SUPER_ADMIN
          /\ Shares(users[last.caller], users[u])
          /\ u \notin ToSet(last.out)

\* ------------------------------------------------------------------- C33
\* The sweep in slot p runs delete_many and answers.
SweepDelete(p) ==
    /\ calls[p].op = "cleanup_expired_tokens"
    /\ calls[p].pc = "delete"
    /\ calls'[p] = Idle

\* A sweep is refused in the step it is called in.
SweepRefused ==
    /\ last'.op = "cleanup_expired_tokens"
    /\ last'.code = 403
    /\ calls' = calls
    /\ now' = now

\* The reset documents that are past their expiry at instant t, or used.
Spent(rs, t) == {i \in DOMAIN rs : rs[i].expiry < t \/ rs[i].used}

\* The token can complete a password recovery at instant t.
CanRecover(rs, token, t) ==
    \E i \in DOMAIN rs : /\ rs[i].token = token
                          /\ ~rs[i].used
                          /\ t <= rs[i].expiry

\* C33 as claimed: a sweep by a super_admin removes exactly the reset
\* documents that are expired or used when it removes them, keeps the others
\* as they were and reports the number removed, so every token that could
\* complete a recovery before the sweep can complete it after; a refused
\* sweep removes nothing.
C33_SweepExact ==
    [][ /\ \A p \in Procs : SweepDelete(p) =>
              /\ last'.op = "cleanup_expired_tokens"
              /\ last'.code = 200
              /\ resets' = SelectSeq(resets,
                              LAMBDA d : ~(d.expiry < now \/ d.used))
              /\ last'.out = <<Cardinality(Spent(resets, now))>>
              /\ \A i \in DOMAIN resets :
                    CanRecover(resets, resets[i].token, now)
                       => CanRecover(resets', resets[i].token, now)
              /\ users' = users
        /\ SweepRefused => (resets' = resets /\ users' = users) ]_vars

\* C33, amended: a sweep by a super_admin removes exactly the reset documents
\* that were past their expiry at the instant the sweep read the clock, or
\* are used when it removes them (a token that expires while the sweep waits
\* for the store is left for the next sweep); it keeps the others as they
\* were and reports the number removed, so every token that can complete a
\* recovery when the sweep removes documents can complete it after; a sweep
\* removes nothing before that step, and a refused sweep removes nothing.
C33_SweepAtClockRead ==
    [][ /\ \A p \in Procs : SweepDelete(p) =>
              /\ last'.op = "cleanup_expired_tokens"
              /\ last'.code = 200
              /\ calls[p].clock <= now
              /\ resets' = SelectSeq(resets,
                              LAMBDA d : ~(d.expiry < calls[p].clock
                                              \/ d.used))
              /\ last'.out = <<Cardinality(Spent(resets, calls[p].clock))>>
              /\ \A i \in DOMAIN resets :
                    CanRecover(resets, resets[i].token, now)
                       => CanRecover(resets', resets[i].token, now)
              /\ users' = users
        /\ \A p \in Procs :
              (calls[p] = Idle /\ calls'[p].op = "cleanup_expired_tokens") =>
                 /\ calls'[p].clock = now
                 /\ resets' = resets
                 /\ users' = users
        /\ SweepRefused => (resets' = resets /\ users' = users) ]_vars

\* A sweep that read the clock before a token expired has removed documents
\* after it expired and left that token, and a token the sweep kept has then
\* completed a recovery.
C33_Witness ==
    /\ last.op = "reset_password"
    /\ last.code = 200
    /\ Len(resets) < Len(SeedResets)
    /\ users[last.target].password = hash_password(last.arg)
    /\ \E i \in DOMAIN resets : resets[i].token = 1 /\ resets[i].expiry < now


\* ------------------------------------------------------------------- C34
\* C34: a token is issued only to an account that is approved when it is
\* issued.  login answers 401 when no account has the e-mail or the password
\* does not verify, 403 when the account is pending or rejected, and issues a
\* token to the account otherwise; register issues a token only to an
\* account it creates approved, which has the operator's e-mail; no other
\* operation issues a token.
C34_TokenOnlyApproved ==
    [][/\ \A i \in tokens' \ tokens :
            /\ Exists(users', i)
            /\ users'[i].status = APPROVED
            /\ last'.op \in {"login", "register"}
            /\ last'.target = i
       /\ last'.op = "login" =>
            LET id == FindByEmail(users, last'.arg)
                verified == id # 0 /\ users[id].password
                                        = hash_password(last'.other)
            IN  /\ ~verified => last'.code = 401
                /\ (verified /\ users[id].status # APPROVED)
                      => last'.code = 403
                /\ (verified /\ users[id].status = APPROVED)
                      => last'.code = 200 /\ id \in tokens'
                /\ last'.code # 200 => tokens' = tokens
       /\ (last'.op = "register" /\ tokens' # tokens) =>
            /\ Len(users') = Len(users) + 1
            /\ tokens' = tokens \cup {Len(users')}
            /\ users'[Len(users')].email = OperatorEmail
            /\ last'.code = 200
       /\ (last'.op = "register" /\ Len(users') # Len(users)
             /\ users'[Len(users')].status # APPROVED) => tokens' = tokens ]_vars

\* A login with the right password was refused for a pending account, while
\* another account holds a token.
C34_Witness ==
    /\ last.op = "login"
    /\ last.code = 403
    /\ last.target # 0
    /\ users[last.target].status = PENDING
    /\ last.target \notin tokens
    /\ tokens # {}

====
